---- MODULE Spec2Model ----
(***************************************************************************)
(* Model of the kiosk front end (kiosk.js): the presence detector driven   *)
(* by camera frames, and the buffered dialogue-turn loop (mainLoop,        *)
(* loopOnce, recordChunk, checkAudioVolume, sendAudioToBackend, showToast).*)
(*                                                                         *)
(* Units.  Times are in milliseconds.  Normalised landmark coordinates,    *)
(* thresholds and the region of interest are in hundredths (0.10 is 10).   *)
(* Audio samples and RMS values are in thousandths (0.008 is 8).           *)
(***************************************************************************)
EXTENDS Integers, Sequences, FiniteSets, TLC

VARIABLES
    boot,             \* position of the page start-up: "init", "config", "running"
    camera,           \* "unknown", "granted" or "denied" (getUserMedia video)
    presenceCfg,      \* window.__presenceCfg
    presenceDetected, \* let presenceDetected
    presenceTimer,    \* remaining ms of the pending hold timeout, or NoTimer
    lastFrame,        \* what the most recent frame was: "none", "noface", "bad",
                      \* "unqualified", "qualified" (history)
    sinceQual,        \* ms since the most recent qualifying frame (history)
    useWebSocketStream, \* the build flag USE_WEBSOCKET_STREAM
    loopKind,         \* what mainLoop runs: "none", "main", "fallback", "stream"
    pollTimer,        \* remaining ms of the loop's sleep, NoTimer while it awaits loopOnce
    greetedRecently,  \* window.__greetedRecently
    greetTimer,       \* remaining ms of the timeout that clears it, or NoTimer
    loopGreeting,     \* the loop awaits loopOnce inside the greeting branch
    busy,             \* let busy
    currentPhase,     \* let currentPhase
    isRecording,      \* let isRecording
    isPlayingAudio,   \* let isPlayingAudio
    chunks,           \* let chunks: the recorded pieces
    recorderState,    \* mediaRecorder: "null", or its state "recording" / "inactive"
    micStream,        \* the microphone stream of recordChunk: "none", "live", "stopped"
    recTimer,         \* remaining ms of recordChunk's stop timeout, or NoTimer
    audioPlaying,     \* the replyAudio element is playing
    onendedSet,       \* replyAudio.onended is installed
    safetyTimers,     \* pending safety timeouts: records [turn, rem]
    toasts,           \* number of notices on screen (each with a retry button)
    pc,               \* per caller of loopOnce: where its invocation stands
    audioBlob,        \* per caller: loopOnce's local audioBlob
    sent,             \* per caller: requests made to /api/dialogue by its invocation
    turnOf,           \* per caller: serial number of the turn it runs
    turns,            \* number of loopOnce bodies started so far
    lastExit,         \* how the latest loopOnce body finished (history)
    phaseLog,         \* values taken by currentPhase since the latest turn began (history)
    presenceHeld,     \* presence was true from the start of the latest turn on (history)
    playFailed,       \* audioEl.play() rejected in the latest turn (history)
    waited,           \* ms the latest turn has waited for the end of playback (history)
    dropSeen,         \* a call of loopOnce returned at its first line while the
                      \* turn in progress ran (history)
    rejected,         \* the latest call of recordChunk was rejected (history)
    sinceGreet,       \* ms since the latest greeting turn finished (history)
    wsStream,         \* let wsStream: "null", or the socket's state "open" / "closed"
    wsOpens,          \* number of sockets opened so far (new WebSocket)
    streamMic,        \* the microphone stream of the streaming session:
                      \* "none", "live", "stopped"
    consecutive,      \* let consecutive: windows in a row at or above the threshold
    recent,           \* RMS of the windows sampled so far, the latest three (history)
    streamRecorder,   \* the streaming MediaRecorder: "none", "recording", "inactive"
    avatarController, \* let avatarController: "null" or "set"
    emotion,          \* the emotion the avatar received last, "none" before the first
    audioOpen,        \* audio_start was received and audio_end was not yet (history)
    sinceClose,       \* ms since wsStream.onclose ran, NoTimer before (history)
    currentRate,      \* let currentAudioSampleRate
    pcmIn,            \* sample counts of the binary chunks received since the
                      \* latest audio_start (history)
    pcmOut,           \* the chunks handed to playPcmChunk since then: sample
                      \* count and rate (history)
    wsErrors,         \* errors caught and logged by wsStream.onmessage
    afterGarbled,     \* text messages handled since the latest one that was
                      \* not JSON (at most 1 is counted), -1 before it (history)
    frameSeq,         \* number of chunks the streaming recorder has delivered
    encoding,         \* chunks whose arrayBuffer() promise is pending
    wire,             \* the chunks sent on the socket, in the order of send()
    arg,              \* the input of a function that is exercised on its own
    res               \* what the function returned for arg, NoRes before the call

presenceVars == <<presenceCfg, presenceDetected, presenceTimer, lastFrame,
                  sinceQual>>

loopVars == <<loopKind, pollTimer, greetedRecently, greetTimer, loopGreeting,
              sinceGreet>>

captureVars == <<isRecording, chunks, recorderState, micStream, recTimer>>

playVars == <<isPlayingAudio, audioPlaying, onendedSet, safetyTimers>>

turnVars == <<busy, currentPhase, pc, audioBlob, sent, turnOf, turns>>

histVars == <<lastExit, phaseLog, presenceHeld, playFailed, waited, dropSeen,
              rejected>>

downVars == <<currentRate, pcmIn, pcmOut, wsErrors, afterGarbled>>

upVars == <<frameSeq, encoding, wire>>

streamVars == <<wsStream, wsOpens, streamMic, consecutive, recent,
                streamRecorder, avatarController, emotion, audioOpen,
                sinceClose, downVars, upVars>>

pureVars == <<arg, res>>

vars == <<boot, camera, useWebSocketStream, toasts, presenceVars,
          loopVars, captureVars, playVars, turnVars, histVars, streamVars,
          pureVars>>

----------------------------------------------------------------------------
(* Values *)

NoTimer == -1

NoArg == [fn |-> "none"]
NoRes == [fn |-> "none"]

\* Width and height of the presence video, as requested from the camera.
VideoWidth == 320
VideoHeight == 240

\* let currentAudioSampleRate = 16000, and obj.sampleRate || 16000.
DefaultSampleRate == 16000

\* Defaults of the presence configuration (the right-hand sides of ??).
DefaultNearThreshold == 10
DefaultMediumThreshold == 7
DefaultAttentionTolerancePx == 80
DefaultHoldMs == 20000
DefaultRoi == [top |-> 0, left |-> 0, width |-> 100, height |-> 100]

\* A configuration that sets every key the detector reads; "has" lists the
\* keys that are present in the object.
CustomCfg == [has |-> {"nearThreshold", "mediumThreshold", "attentionTolerancePx",
                       "roi", "holdMs"},
              nearThreshold |-> 12, mediumThreshold |-> 8,
              attentionTolerancePx |-> 48,
              roi |-> [top |-> 20, left |-> 40, width |-> 20, height |-> 40],
              holdMs |-> 3000]

\* A configuration object without any presence key ({}).
EmptyCfg == [CustomCfg EXCEPT !.has = {}]

PresenceCfgs == {EmptyCfg, CustomCfg}

\* The configuration the dialogue loop is exercised with.
LoopCfgs == {CustomCfg}

\* cfg.key ?? dflt (and cfg.key || dflt for an object)
Nullish(cfg, key, dflt) == IF key \in cfg.has THEN cfg[key] ELSE dflt

Abs(x) == IF x < 0 THEN -x ELSE x

RECURSIVE SqrtSearch(_, _, _)
SqrtSearch(x, lo, hi) ==
    IF lo >= hi THEN lo
    ELSE LET mid == (lo + hi + 1) \div 2
         IN IF mid * mid <= x THEN SqrtSearch(x, mid, hi)
                              ELSE SqrtSearch(x, lo, mid - 1)

\* floor(Math.sqrt(x)) for 0 <= x < 2^30
ISqrt(x) == SqrtSearch(x, 0, 32767)

Min(a, b) == IF a < b THEN a ELSE b

----------------------------------------------------------------------------
(* Camera frames: the results MediaPipe hands to faceMesh.onResults *)

LeftEyeXs == {40}
LeftEyeYs == {50}
RightEyeXs == {46, 47, 48, 50, 52}
RightEyeYs == {50, 55}
NoseXs == {20, 39, 40, 44}
NoseYs == {50, 60, 61}

Point(px, py) == [x |-> px, y |-> py]

\* A frame with one face: landmarks 33 (left eye), 263 (right eye), 1 (nose).
FaceAt(le, re, n) == [kind |-> "face", leftEye |-> le, rightEye |-> re, nose |-> n]

\* The left eye of every frame.
LeftEyes == { Point(lx, ly) : lx \in LeftEyeXs, ly \in LeftEyeYs }

\* The face frames: level eyes at every distance with the nose at every
\* horizontal place; level eyes with the nose at every height; and slanted
\* eyes whose horizontal distance alone is short of, or at, a threshold.
FaceFrames ==
    UNION { { FaceAt(le, Point(rx, 50), Point(nx, 50)) :
                rx \in RightEyeXs, nx \in NoseXs }
            \cup { FaceAt(le, Point(rx, 50), Point(44, ny)) :
                      rx \in {48, 52}, ny \in NoseYs }
            \cup { FaceAt(le, Point(rx, ry), Point(44, 50)) :
                      rx \in {46, 47}, ry \in RightEyeYs } : le \in LeftEyes }

NoPoint == Point(0, 0)

\* multiFaceLandmarks empty or missing.
NoFaceFrame == [kind |-> "noface", leftEye |-> NoPoint, rightEye |-> NoPoint,
                nose |-> NoPoint]

\* A face entry without the landmarks the handler reads: reading them throws.
BadFrame == [kind |-> "bad", leftEye |-> NoPoint, rightEye |-> NoPoint,
             nose |-> NoPoint]

Frames == FaceFrames \cup {NoFaceFrame, BadFrame}

\* The frame the dialogue loop is exercised with: a face that is near,
\* attentive and inside the region under either configuration.  (Every other
\* frame leaves the variables the loop reads as they are.)
KeyFrames == {FaceAt(Point(40, 50), Point(52, 50), Point(44, 50))}

\* eyeDistancePixels, in hundredths of a pixel (rounded down).
EyeDistancePixels(f) ==
    LET dx == (f.rightEye.x - f.leftEye.x) * VideoWidth
        dy == (f.rightEye.y - f.leftEye.y) * VideoHeight
    IN ISqrt(dx * dx + dy * dy)

\* A classification whose boundaries belong to the lower tier.
TierStrict(d, nearTh, medTh) ==
    IF d > nearTh THEN "near"
    ELSE IF d > medTh THEN "medium"
    ELSE "far"

\* The tier of a distance d under the two thresholds (same unit as d).
Tier(d, nearTh, medTh) ==
    IF d >= nearTh THEN "near"
    ELSE IF d >= medTh THEN "medium"
    ELSE "far"

\* tier of a frame: eyeDistanceNorm = eyeDistancePixels / videoWidth is compared
\* with the thresholds; both sides are multiplied by videoWidth here.
FrameTier(f, pcfg) ==
    Tier(EyeDistancePixels(f),
         Nullish(pcfg, "nearThreshold", DefaultNearThreshold) * VideoWidth,
         Nullish(pcfg, "mediumThreshold", DefaultMediumThreshold) * VideoWidth)

\* tier of a normalized distance d (hundredths) under a configuration.
DistanceTier(d, pcfg) ==
    Tier(d, Nullish(pcfg, "nearThreshold", DefaultNearThreshold),
            Nullish(pcfg, "mediumThreshold", DefaultMediumThreshold))

\* An attention test that admits an offset equal to the tolerance.
FrameAttentionInclusive(f, pcfg) ==
    LET horizOffset == Abs(f.leftEye.x + f.rightEye.x - 2 * f.nose.x) * VideoWidth
        vertOffset == Abs(f.leftEye.y + f.rightEye.y - 2 * f.nose.y) * VideoHeight
        tol == Nullish(pcfg, "attentionTolerancePx", DefaultAttentionTolerancePx) * 200
    IN horizOffset <= tol /\ vertOffset <= tol

\* attention = horizOffset < tol && vertOffset < tol.  The offsets are
\* |mid-eye - nose| * size in pixels; both sides are multiplied by 200.
FrameAttention(f, pcfg) ==
    LET horizOffset == Abs(f.leftEye.x + f.rightEye.x - 2 * f.nose.x) * VideoWidth
        vertOffset == Abs(f.leftEye.y + f.rightEye.y - 2 * f.nose.y) * VideoHeight
        tol == Nullish(pcfg, "attentionTolerancePx", DefaultAttentionTolerancePx) * 200
    IN horizOffset < tol /\ vertOffset < tol

\* inRoi: the nose point against the configured region, bounds included.
FrameInRoi(f, pcfg) ==
    LET roi == Nullish(pcfg, "roi", DefaultRoi)
        xMin == roi.left
        xMax == roi.left + roi.width
        yMin == roi.top
        yMax == roi.top + roi.height
    IN /\ f.nose.x >= xMin /\ f.nose.x <= xMax
       /\ f.nose.y >= yMin /\ f.nose.y <= yMax

\* The condition of the handler's "person detected" branch.
Qualifies(f, pcfg) ==
    /\ f.kind = "face"
    /\ FrameTier(f, pcfg) \in {"near", "medium"}
    /\ FrameAttention(f, pcfg)
    /\ FrameInRoi(f, pcfg)

HoldMs(pcfg) == Nullish(pcfg, "holdMs", DefaultHoldMs)

\* A hold timer that a qualifying frame starts only when none is pending.
RestartHoldTimerKeep(timer, pcfg) ==
    IF timer # NoTimer THEN timer ELSE HoldMs(pcfg)

\* The hold timer after a qualifying frame: the pending timeout, if any, is
\* cleared and a new one of holdMs is started.
RestartHoldTimer(timer, pcfg) == HoldMs(pcfg)

----------------------------------------------------------------------------
(* Time *)

PollMs == 1500
FallbackPollMs == 2000
RecordMs == 6000
SafetyTimeoutMs == 30000
GreetWindowMs == 20000

\* A countdown after d ms; a timer that is not pending stays so.
Down(t, d) == IF t = NoTimer THEN NoTimer ELSE t - d

----------------------------------------------------------------------------
(* Bounds *)

\* Number of loopOnce bodies a behaviour runs to their end; once that many
\* have finished no further one is started.
MaxTurns == 2

\* Number of notices on screen at once.
MaxToasts == 1

----------------------------------------------------------------------------
(* Captured audio and the amplitude gate *)

\* The threshold of checkAudioVolume, in thousandths.
QuietRms == 8

\* What the recorder delivers: nothing (size 0), bytes that do not decode, or
\* audio whose first channel holds the given samples (thousandths).  NoBlob
\* stands for a local audioBlob that has not been assigned.
NoData == [size |-> 0, decodable |-> FALSE, samples |-> << >>]
NoBlob == [size |-> -1, decodable |-> FALSE, samples |-> << >>]
Garbage == [size |-> 1, decodable |-> FALSE, samples |-> << >>]
Audio(smp) == [size |-> 1, decodable |-> TRUE, samples |-> smp]

Recordings == {NoData, Garbage, Audio(<<7, 8>>), Audio(<<8>>)}

\* new Blob(chunks): the pieces joined; an empty list gives an empty blob.
Blob(cs) == IF cs = << >> THEN NoData ELSE cs[1]

RECURSIVE SumSquares(_)
SumSquares(smp) ==
    IF smp = << >> THEN 0
    ELSE Head(smp) * Head(smp) + SumSquares(Tail(smp))

\* rms = Math.sqrt(sum / channelData.length), rounded down to thousandths.
Rms(smp) == ISqrt(SumSquares(smp) \div Len(smp))

\* A gate whose threshold is 0.005.
checkAudioVolumeLow(blob) ==
    IF blob.size = 0 \/ ~blob.decodable THEN TRUE
    ELSE IF Rms(blob.samples) < 5 THEN FALSE
    ELSE TRUE

\* A gate that rejects what it cannot decode.
checkAudioVolumeClosed(blob) ==
    IF blob.size = 0 \/ ~blob.decodable THEN FALSE
    ELSE IF Rms(blob.samples) < QuietRms THEN FALSE
    ELSE TRUE

\* checkAudioVolume(blob): false when the audio decodes and is too quiet;
\* true when it is loud enough, and true when decoding throws.
checkAudioVolume(blob) ==
    IF blob.size = 0 \/ ~blob.decodable THEN TRUE
    ELSE IF Rms(blob.samples) < QuietRms THEN FALSE
    ELSE TRUE

----------------------------------------------------------------------------
(* Answers of the dialogue service *)

\* fetch rejects, res.json() rejects, the body is JSON null, or an object.
Outcomes == {"neterr", "badjson", "null", "noaudio", "audio"}

\* A loopOnce that throws only when fetch itself rejects.
ThrowsNetOnly(outcome) == outcome = "neterr"

\* The outcomes on which loopOnce throws into its catch block.
Throws(outcome) == outcome \in {"neterr", "badjson", "null"}

----------------------------------------------------------------------------
(* Callers of loopOnce *)

Callers == {"loop", "retry"}

\* Positions where the invocation waits for a completion that arrives at once
\* (within less than a tick): getUserMedia, the recorder's events, decoding.
Urgent == {"getUserMedia", "stopping", "stopped", "checking"}

\* Append a phase to the log when it differs from the last one logged.
Log(l, p) == IF l[Len(l)] = p THEN l ELSE Append(l, p)

LoopInterval == IF loopKind = "fallback" THEN FallbackPollMs ELSE PollMs

----------------------------------------------------------------------------
(* Initial state: the module-level declarations of kiosk.js *)

PageLoad ==
    /\ boot = "init"
    /\ camera = "unknown"
    /\ useWebSocketStream \in BOOLEAN
    /\ presenceCfg = EmptyCfg
    /\ presenceDetected = FALSE
    /\ presenceTimer = NoTimer
    /\ lastFrame = "none"
    /\ sinceQual = HoldMs(EmptyCfg)
    /\ loopKind = "none"
    /\ pollTimer = NoTimer
    /\ greetedRecently = FALSE
    /\ greetTimer = NoTimer
    /\ loopGreeting = FALSE
    /\ busy = FALSE
    /\ currentPhase = "idle"
    /\ isRecording = FALSE
    /\ isPlayingAudio = FALSE
    /\ chunks = << >>
    /\ recorderState = "null"
    /\ micStream = "none"
    /\ recTimer = NoTimer
    /\ audioPlaying = FALSE
    /\ onendedSet = FALSE
    /\ safetyTimers = {}
    /\ toasts = 0
    /\ pc = [c \in Callers |-> "none"]
    /\ audioBlob = [c \in Callers |-> NoBlob]
    /\ sent = [c \in Callers |-> 0]
    /\ turnOf = [c \in Callers |-> 0]
    /\ turns = 0
    /\ lastExit = "none"
    /\ phaseLog = <<"idle">>
    /\ presenceHeld = FALSE
    /\ playFailed = FALSE
    /\ waited = 0
    /\ dropSeen = FALSE
    /\ rejected = FALSE
    /\ sinceGreet = GreetWindowMs
    /\ wsStream = "null"
    /\ wsOpens = 0
    /\ streamMic = "none"
    /\ consecutive = 0
    /\ recent = << >>
    /\ streamRecorder = "none"
    /\ avatarController = "null"
    /\ emotion = "none"
    /\ audioOpen = FALSE
    /\ sinceClose = NoTimer
    /\ currentRate = DefaultSampleRate
    /\ pcmIn = << >>
    /\ pcmOut = << >>
    /\ wsErrors = 0
    /\ afterGarbled = -1
    /\ frameSeq = 0
    /\ encoding = {}
    /\ wire = << >>

\* The page as loaded; no function is exercised on its own.
Init == PageLoad /\ arg = NoArg /\ res = NoRes

----------------------------------------------------------------------------
(* Start-up *)

\* The DOMContentLoaded handler: the presence configuration is fetched (a
\* failed fetch leaves {}), then startPresenceDetection is called.
DOMContentLoaded(cfg) ==
    /\ boot = "init"
    /\ boot' = "config"
    /\ presenceCfg' = cfg
    /\ sinceQual' = HoldMs(cfg)
    /\ UNCHANGED <<camera, useWebSocketStream, pureVars, streamVars, toasts,
                   presenceDetected, presenceTimer, lastFrame,
                   loopVars, captureVars, playVars, turnVars, histVars>>

\* The hosts startWebSocketStreaming tries: '127.0.0.1' and 'localhost'.
Candidates == 2

\* mainLoop up to its first suspension.  With the streaming flag set the
\* socket is tried on every candidate host: when one answers the session
\* streams (wsStream keeps the open socket and the microphone is asked
\* for), when none does wsStream is null again and startWebSocketStreaming
\* enters its polling loop.  Without the flag mainLoop polls.
mainLoop(connected) ==
    /\ loopKind' = IF ~useWebSocketStream THEN "main"
                   ELSE IF connected THEN "stream" ELSE "fallback"
    /\ pollTimer' = IF ~useWebSocketStream THEN PollMs
                    ELSE IF connected THEN NoTimer ELSE FallbackPollMs
    /\ wsStream' = IF useWebSocketStream /\ connected THEN "open" ELSE "null"
    /\ IF ~useWebSocketStream
       THEN wsOpens' = 0
       ELSE IF connected
       THEN wsOpens' \in 1..Candidates
       ELSE wsOpens' = Candidates
    /\ UNCHANGED <<greetedRecently, greetTimer, loopGreeting, sinceGreet>>

\* startPresenceDetection after the camera request settled: mainLoop is
\* started whether the camera was granted or not.
StartPresenceDetection(granted, connected) ==
    /\ boot = "config"
    /\ boot' = "running"
    /\ camera' = IF granted THEN "granted" ELSE "denied"
    /\ mainLoop(connected)
    /\ UNCHANGED <<useWebSocketStream, pureVars, toasts, presenceVars,
                   captureVars, playVars, turnVars, histVars,
                   streamMic, consecutive, recent, streamRecorder,
                   avatarController, emotion, audioOpen, sinceClose,
                   downVars, upVars>>

----------------------------------------------------------------------------
(* Presence detection *)

\* A no-face branch that clears presence and cancels the timer.
NoFaceResets ==
    /\ lastFrame' = "noface"
    /\ presenceDetected' = FALSE
    /\ presenceTimer' = NoTimer
    /\ UNCHANGED sinceQual

\* The handler's branch for a frame without a face: the overlay is cleared
\* and the tier is set to 'none'; presence and its timer are not touched.
NoFace ==
    /\ lastFrame' = "noface"
    /\ UNCHANGED <<presenceDetected, presenceTimer, sinceQual>>

\* faceMesh.onResults for one frame.  (The tier and the attention flag the
\* handler keeps between frames are only logged and are not part of the state.)
OnResults(f) ==
    /\ boot = "running"
    /\ camera = "granted"
    /\ IF f.kind = "bad"
       THEN \* reading the landmarks throws; the handler's catch logs it
            /\ lastFrame' = "bad"
            /\ UNCHANGED <<presenceDetected, presenceTimer, sinceQual>>
       ELSE IF f.kind = "noface"
       THEN NoFace
       ELSE IF Qualifies(f, presenceCfg)
       THEN /\ presenceDetected' = TRUE
            /\ presenceTimer' = RestartHoldTimer(presenceTimer, presenceCfg)
            /\ sinceQual' = 0
            /\ lastFrame' = "qualified"
       ELSE /\ lastFrame' = "unqualified"
            /\ UNCHANGED <<presenceDetected, presenceTimer, sinceQual>>
    /\ UNCHANGED <<boot, camera, useWebSocketStream, pureVars, streamVars, presenceCfg, toasts,
                   loopVars, captureVars, playVars, turnVars, histVars>>

\* A hold timeout that also ends the turn in progress.
PresenceTimeoutAborts ==
    /\ presenceTimer = 0
    /\ presenceDetected' = FALSE
    /\ presenceTimer' = NoTimer
    /\ presenceHeld' = FALSE
    /\ busy' = FALSE
    /\ currentPhase' = "idle"
    /\ UNCHANGED <<boot, camera, useWebSocketStream, pureVars, streamVars, toasts,
                   presenceCfg, lastFrame, sinceQual,
                   loopVars, captureVars, playVars,
                   pc, audioBlob, sent, turnOf, turns,
                   lastExit, phaseLog, playFailed, waited, dropSeen,
                   rejected>>

\* faceMesh.send rejects for one frame: the await in detectFaces throws, the
\* requestAnimationFrame call after it is not reached, and no further frame
\* is sent to the detector (camera = "stalled": the stream is still held).
SendFails ==
    /\ boot = "running"
    /\ camera = "granted"
    /\ camera' = "stalled"
    /\ UNCHANGED <<boot, useWebSocketStream, pureVars, streamVars, toasts, presenceVars,
                   loopVars, captureVars, playVars, turnVars, histVars>>

\* The hold timeout fires.
PresenceTimeout ==
    /\ presenceTimer = 0
    /\ presenceDetected' = FALSE
    /\ presenceTimer' = NoTimer
    /\ presenceHeld' = FALSE
    /\ UNCHANGED <<boot, camera, useWebSocketStream, pureVars, streamVars, toasts,
                   presenceCfg, lastFrame, sinceQual,
                   loopVars, captureVars, playVars, turnVars,
                   lastExit, phaseLog, playFailed, waited, dropSeen,
                   rejected>>

----------------------------------------------------------------------------
(* Passage of time *)

\* The remaining times of all pending timeouts.
Pending ==
    {t \in {presenceTimer, pollTimer, greetTimer, recTimer} : t # NoTimer}
        \cup {t.rem : t \in safetyTimers}

\* The least element of a non-empty set of numbers.
Least(S) == CHOOSE x \in S : \A y \in S : x <= y

\* Time moves on by d ms.  A timeout that is due fires before time moves
\* on, and a completion that arrives at once is not overtaken by the clock.
Advance(d) ==
    /\ boot = "running"
    /\ d > 0
    /\ \A t \in Pending : d <= t
    /\ \A c \in Callers : pc[c] \notin Urgent
    /\ presenceTimer' = Down(presenceTimer, d)
    /\ pollTimer' = Down(pollTimer, d)
    /\ greetTimer' = Down(greetTimer, d)
    /\ recTimer' = Down(recTimer, d)
    /\ safetyTimers' = { [t EXCEPT !.rem = @ - d] : t \in safetyTimers }
    /\ sinceQual' = Min(sinceQual + d, HoldMs(presenceCfg))
    /\ sinceGreet' = Min(sinceGreet + d, GreetWindowMs)
    /\ sinceClose' = IF sinceClose = NoTimer THEN NoTimer
                     ELSE Min(sinceClose + d, SafetyTimeoutMs)
    /\ waited' = IF \E c \in Callers : pc[c] = "waitEnded"
                 THEN waited + d
                 ELSE waited
    /\ UNCHANGED <<boot, camera, useWebSocketStream, pureVars, toasts,
                   wsStream, wsOpens, streamMic, consecutive, recent,
                   streamRecorder, avatarController, emotion, audioOpen,
                   downVars, upVars,
                   presenceCfg, presenceDetected, lastFrame,
                   loopKind, greetedRecently, loopGreeting,
                   isRecording, chunks, recorderState, micStream,
                   isPlayingAudio, audioPlaying, onendedSet,
                   turnVars, lastExit, phaseLog, presenceHeld, playFailed,
                   dropSeen, rejected>>

\* Time moves on to the moment the next timeout is due.
Tick ==
    /\ Pending # {}
    /\ Advance(Least(Pending))

\* The steps by which time passes between two frames in PresenceSpec.
TimeSteps == {500, 1000}

\* Time passes between two frames.
FrameGap(d) ==
    /\ d \in TimeSteps
    /\ Advance(d)

----------------------------------------------------------------------------
(* loopOnce *)

\* A loopOnce without its first line.
NeverDropped(b) == FALSE

\* if (busy) return;
Dropped(b) == b

\* A finally block that releases busy and leaves the phase as it is.
FinallyBusyOnly(c, exit) ==
    /\ busy' = FALSE
    /\ pc' = [pc EXCEPT ![c] = "none"]
    /\ audioBlob' = [audioBlob EXCEPT ![c] = NoBlob]
    /\ turnOf' = [turnOf EXCEPT ![c] = 0]
    /\ lastExit' = exit
    /\ presenceHeld' = FALSE
    /\ waited' = 0
    /\ dropSeen' = FALSE
    /\ UNCHANGED <<currentPhase, phaseLog, sent, playFailed, rejected>>

\* The finally block of loopOnce, and the end of the invocation: its locals
\* are gone.  (The count of requests and the failure of play() are kept for
\* inspection until the next invocation begins.)
Finally(c, exit) ==
    /\ currentPhase' = "idle"
    /\ busy' = FALSE
    /\ phaseLog' = Log(phaseLog, "idle")
    /\ pc' = [pc EXCEPT ![c] = "none"]
    /\ audioBlob' = [audioBlob EXCEPT ![c] = NoBlob]
    /\ turnOf' = [turnOf EXCEPT ![c] = 0]
    /\ lastExit' = exit
    /\ presenceHeld' = FALSE
    /\ waited' = 0
    /\ dropSeen' = FALSE
    /\ UNCHANGED <<sent, playFailed, rejected>>

\* A greeting branch that clears __greetedRecently as soon as its turn is over.
ResumeNoWindow(c) ==
    IF c = "loop"
    THEN /\ pollTimer' = LoopInterval
         /\ greetedRecently' = IF loopGreeting THEN FALSE ELSE greetedRecently
         /\ sinceGreet' = IF loopGreeting THEN 0 ELSE sinceGreet
         /\ loopGreeting' = FALSE
         /\ UNCHANGED <<loopKind, greetTimer>>
    ELSE UNCHANGED loopVars

\* What the caller does when the loopOnce it awaited has finished: the
\* polling loop goes back to sleep, and the greeting branch first schedules
\* the reset of __greetedRecently; the click handler of a notice does nothing.
Resume(c) ==
    IF c = "loop"
    THEN /\ pollTimer' = LoopInterval
         /\ greetTimer' = IF loopGreeting THEN GreetWindowMs ELSE greetTimer
         /\ sinceGreet' = IF loopGreeting THEN 0 ELSE sinceGreet
         /\ loopGreeting' = FALSE
         /\ UNCHANGED <<loopKind, greetedRecently>>
    ELSE UNCHANGED loopVars

\* A recordChunk that tests isRecording after its first two assignments.
RejectsLate ==
    /\ isRecording' = TRUE
    /\ chunks' = << >>
    /\ rejected' = TRUE
    /\ UNCHANGED <<recorderState, micStream, recTimer>>

\* recordChunk called while isRecording is true:
\* if (isRecording) return reject("already recording"), before any write.
AlreadyRecording ==
    /\ rejected' = TRUE
    /\ UNCHANGED captureVars

\* The number of loopOnce bodies that have run to their end.
Finished == turns - Cardinality({c \in Callers : pc[c] # "none"})

\* loopOnce from its first line to its first suspension, busy being false:
\* the flags are set and recordChunk starts, asking for the microphone.
\* n is the number of notices on screen when the call is made.
Enter(c, n) ==
    /\ Finished < MaxTurns
    /\ turns' = turns + 1
    /\ IF isRecording
       THEN \* recordChunk rejects with "already recording": catch, finally
            /\ n < MaxToasts
            /\ toasts' = n + 1
            /\ currentPhase' = "idle"
            /\ busy' = FALSE
            /\ phaseLog' = Log(Log(<<currentPhase>>, "listening"), "idle")
            /\ lastExit' = "alreadyRecording"
            /\ sent' = [sent EXCEPT ![c] = 0]
            /\ playFailed' = FALSE
            /\ AlreadyRecording
            /\ UNCHANGED <<pc, audioBlob, turnOf, presenceHeld, waited, dropSeen>>
       ELSE /\ busy' = TRUE
            /\ currentPhase' = "listening"
            /\ phaseLog' = Log(<<currentPhase>>, "listening")
            /\ isRecording' = TRUE
            /\ chunks' = << >>
            /\ pc' = [pc EXCEPT ![c] = "getUserMedia"]
            /\ turnOf' = [turnOf EXCEPT ![c] = turns + 1]
            /\ presenceHeld' = presenceDetected
            /\ toasts' = n
            /\ sent' = [sent EXCEPT ![c] = 0]
            /\ playFailed' = FALSE
            /\ dropSeen' = FALSE
            /\ rejected' = FALSE
            /\ UNCHANGED <<lastExit, recorderState, micStream, recTimer,
                           audioBlob, waited>>

\* A loopOnce that sets the phase before it looks at busy.
loopOnceLate(c, n) ==
    IF Dropped(busy)
    THEN /\ toasts' = n
         /\ dropSeen' = TRUE
         /\ currentPhase' = "listening"
         /\ UNCHANGED <<captureVars, busy, pc, audioBlob, sent, turnOf, turns,
                        lastExit, phaseLog, presenceHeld, playFailed, waited,
                        rejected>>
    ELSE Enter(c, n)

\* A call of loopOnce by caller c, up to the point where the call returns or
\* suspends.
loopOnce(c, n) ==
    IF Dropped(busy)
    THEN /\ toasts' = n
         /\ dropSeen' = TRUE
         /\ UNCHANGED <<captureVars, turnVars, lastExit, phaseLog,
                        presenceHeld, playFailed, waited, rejected>>
    ELSE Enter(c, n)

\* The call returns to its caller within the same step.
ReturnsAtOnce == Dropped(busy) \/ isRecording

----------------------------------------------------------------------------
(* Triggers *)

\* One round of mainLoop's while loop after its 1500 ms sleep.
MainLoopPoll ==
    /\ loopKind = "main"
    /\ pollTimer = 0
    /\ IF presenceDetected /\ currentPhase = "idle"
       THEN LET greeting == ~greetedRecently
            IN /\ greetedRecently' = TRUE
               /\ loopOnce("loop", toasts)
               /\ IF ReturnsAtOnce
                  THEN /\ pollTimer' = PollMs
                       /\ greetTimer' = IF greeting THEN GreetWindowMs ELSE greetTimer
                       /\ sinceGreet' = IF greeting THEN 0 ELSE sinceGreet
                       /\ loopGreeting' = FALSE
                  ELSE /\ pollTimer' = NoTimer
                       /\ loopGreeting' = greeting
                       /\ UNCHANGED <<greetTimer, sinceGreet>>
       ELSE /\ pollTimer' = PollMs
            /\ UNCHANGED <<greetedRecently, greetTimer, loopGreeting, sinceGreet,
                           toasts,
                           captureVars, turnVars, histVars>>
    /\ UNCHANGED <<boot, camera, useWebSocketStream, pureVars, streamVars, presenceVars,
                   loopKind, playVars>>

\* A fallback loop that tries the socket again on every round.
FallbackPollReopen ==
    /\ loopKind = "fallback"
    /\ pollTimer = 0
    /\ pollTimer' = FallbackPollMs
    /\ wsOpens' = Candidates + 1
    /\ UNCHANGED <<boot, camera, useWebSocketStream, pureVars, toasts, presenceVars,
                   loopKind, greetedRecently, greetTimer, loopGreeting,
                   sinceGreet, captureVars, playVars, turnVars, histVars,
                   wsStream, streamMic, consecutive, recent, streamRecorder,
                   avatarController, emotion, audioOpen, sinceClose,
                   downVars, upVars>>

\* One round of the fallback polling loop after its 2000 ms sleep.
FallbackPoll ==
    /\ loopKind = "fallback"
    /\ pollTimer = 0
    /\ IF presenceDetected
       THEN /\ loopOnce("loop", toasts)
            /\ pollTimer' = IF ReturnsAtOnce THEN FallbackPollMs ELSE NoTimer
       ELSE /\ pollTimer' = FallbackPollMs
            /\ UNCHANGED <<toasts, captureVars, turnVars, histVars>>
    /\ UNCHANGED <<boot, camera, useWebSocketStream, pureVars, streamVars, presenceVars,
                   loopKind, greetedRecently, greetTimer, loopGreeting,
                   sinceGreet, playVars>>

\* The timeout set by the greeting branch clears __greetedRecently.
GreetTimeout ==
    /\ greetTimer = 0
    /\ greetedRecently' = FALSE
    /\ greetTimer' = NoTimer
    /\ UNCHANGED <<boot, camera, useWebSocketStream, pureVars, streamVars, toasts,
                   presenceVars, loopKind, pollTimer, loopGreeting, sinceGreet,
                   captureVars, playVars, turnVars, histVars>>

\* A click on the retry button of a notice: the notice is removed and
\* loopOnce is called when busy is false.
RetryClick ==
    /\ toasts > 0
    /\ busy \/ pc["retry"] = "none"
    /\ IF ~busy
       THEN loopOnce("retry", toasts - 1)
       ELSE /\ toasts' = toasts - 1
            /\ UNCHANGED <<captureVars, turnVars, histVars>>
    /\ UNCHANGED <<boot, camera, useWebSocketStream, pureVars, streamVars, presenceVars,
                   loopVars, playVars>>

\* A notice fades out and is removed when its time is up.
ToastExpire ==
    /\ toasts > 0
    /\ toasts' = toasts - 1
    /\ UNCHANGED <<boot, camera, useWebSocketStream, pureVars, streamVars, presenceVars,
                   loopVars, captureVars, playVars, turnVars, histVars>>

----------------------------------------------------------------------------
(* recordChunk *)

\* A call of recordChunk made while a capture is under way (no code path of
\* loopOnce makes one, since busy covers the capture): the call is rejected.
RecordChunkCall ==
    /\ boot = "running"
    /\ isRecording
    /\ AlreadyRecording
    /\ UNCHANGED <<boot, camera, useWebSocketStream, pureVars, streamVars, toasts,
                   presenceVars, loopVars, playVars, turnVars,
                   lastExit, phaseLog, presenceHeld, playFailed, waited,
                   dropSeen>>

\* getUserMedia settles.  Granted: the recorder is created and started and
\* the stop timeout is set.  Refused: recordChunk rejects, loopOnce shows the
\* notice and leaves through finally.
GetUserMediaDone(c, ok) ==
    /\ pc[c] = "getUserMedia"
    /\ IF ok
       THEN /\ recorderState' = "recording"
            /\ micStream' = "live"
            /\ recTimer' = RecordMs
            /\ pc' = [pc EXCEPT ![c] = "recording"]
            /\ UNCHANGED <<isRecording, chunks, toasts, busy, currentPhase,
                           audioBlob, sent, turnOf, histVars, loopVars>>
       ELSE /\ toasts < MaxToasts
            /\ isRecording' = FALSE
            /\ toasts' = toasts + 1
            /\ Finally(c, "micRefused")
            /\ Resume(c)
            /\ UNCHANGED <<chunks, recorderState, micStream, recTimer>>
    /\ UNCHANGED <<boot, camera, useWebSocketStream, pureVars, streamVars, presenceVars,
                   playVars, turns>>

\* getUserMedia has resolved and a later line of the try block throws (new
\* MediaRecorder(stream) where MediaRecorder is missing or refuses the stream,
\* or mediaRecorder.start()): the catch block clears isRecording and rejects;
\* the stream it holds is not stopped.  loopOnce shows the notice and leaves
\* through finally.
RecorderThrows(c) ==
    /\ pc[c] = "getUserMedia"
    /\ toasts < MaxToasts
    /\ micStream' = "live"
    /\ isRecording' = FALSE
    /\ toasts' = toasts + 1
    /\ Finally(c, "recorderFailed")
    /\ Resume(c)
    /\ UNCHANGED <<chunks, recorderState, recTimer>>
    /\ UNCHANGED <<boot, camera, useWebSocketStream, pureVars, streamVars, presenceVars,
                   playVars, turns>>

\* The stop timeout of recordChunk fires: the recorder is stopped when the
\* global mediaRecorder is recording.
RecordTimeout ==
    /\ recTimer = 0
    /\ recTimer' = NoTimer
    /\ IF recorderState = "recording"
       THEN /\ recorderState' = "inactive"
            /\ pc' = [c \in Callers |->
                        IF pc[c] = "recording" THEN "stopping" ELSE pc[c]]
       ELSE UNCHANGED <<recorderState, pc>>
    /\ UNCHANGED <<boot, camera, useWebSocketStream, pureVars, streamVars, toasts,
                   presenceVars, loopVars, isRecording, chunks, micStream,
                   playVars, busy, currentPhase, audioBlob, sent, turnOf, turns,
                   histVars>>

\* mediaRecorder.ondataavailable: the recorded data is kept when not empty.
DataAvailable(c, data) ==
    /\ pc[c] = "stopping"
    /\ chunks' = IF data.size > 0 THEN Append(chunks, data) ELSE chunks
    /\ pc' = [pc EXCEPT ![c] = "stopped"]
    /\ UNCHANGED <<boot, camera, useWebSocketStream, pureVars, streamVars, toasts,
                   presenceVars, loopVars, isRecording, recorderState, micStream,
                   recTimer, playVars, busy, currentPhase, audioBlob, sent,
                   turnOf, turns, histVars>>

\* mediaRecorder.onstop: the tracks are stopped and recordChunk resolves with
\* the blob; loopOnce hands it to checkAudioVolume, which starts decoding.
OnStop(c) ==
    /\ pc[c] = "stopped"
    /\ micStream' = "stopped"
    /\ isRecording' = FALSE
    /\ audioBlob' = [audioBlob EXCEPT ![c] = Blob(chunks)]
    /\ pc' = [pc EXCEPT ![c] = "checking"]
    /\ UNCHANGED <<boot, camera, useWebSocketStream, pureVars, streamVars, toasts,
                   presenceVars, loopVars, chunks, recorderState, recTimer,
                   playVars, busy, currentPhase, sent, turnOf, turns, histVars>>

----------------------------------------------------------------------------
(* The amplitude gate and the request *)

\* A sender that repeats its fetch.
sendAudioTwice(n) == n + 2

\* sendAudioToBackend makes one fetch; n is the number of requests the
\* invocation has made so far.
sendAudioToBackend(n) == n + 1

\* checkAudioVolume settles.  Too quiet: loopOnce clears busy and returns
\* through finally.  Otherwise the phase becomes processing and the audio is
\* posted to /api/dialogue.
CheckDone(c) ==
    /\ pc[c] = "checking"
    /\ IF ~checkAudioVolume(audioBlob[c])
       THEN /\ Finally(c, "quiet")
            /\ Resume(c)
       ELSE /\ currentPhase' = "processing"
            /\ phaseLog' = Log(phaseLog, "processing")
            /\ sent' = [sent EXCEPT ![c] = sendAudioToBackend(@)]
            /\ audioBlob' = [audioBlob EXCEPT ![c] = NoBlob]
            /\ pc' = [pc EXCEPT ![c] = "fetching"]
            /\ UNCHANGED <<busy, turnOf, lastExit, presenceHeld, playFailed,
                           waited, dropSeen, rejected,
                           loopVars>>
    /\ UNCHANGED <<boot, camera, useWebSocketStream, pureVars, streamVars, toasts,
                   presenceVars, captureVars, playVars, turns>>

\* The request settles.  A rejected fetch, a body that is not JSON and a null
\* body throw into the catch block (notice, then finally).  An answer without
\* audio_url falls through to finally.  With audio_url the reply audio is
\* loaded into the element, the phase becomes answering and play() is called.
\* e is data.emotion of the body ("none": the body has no emotion); loopOnce
\* reads user_text, answer_text and audio_url of the body and nothing else.
FetchResult(c, outcome, e) ==
    /\ pc[c] = "fetching"
    /\ IF Throws(outcome)
       THEN /\ toasts < MaxToasts
            /\ toasts' = toasts + 1
            /\ Finally(c, "requestFailed")
            /\ Resume(c)
            /\ UNCHANGED <<isPlayingAudio, audioPlaying>>
       ELSE IF outcome = "noaudio"
       THEN /\ Finally(c, "noAudio")
            /\ Resume(c)
            /\ UNCHANGED <<toasts, isPlayingAudio, audioPlaying>>
       ELSE /\ audioPlaying' = FALSE
            /\ isPlayingAudio' = TRUE
            /\ currentPhase' = "answering"
            /\ phaseLog' = Log(phaseLog, "answering")
            /\ pc' = [pc EXCEPT ![c] = "play"]
            /\ UNCHANGED <<toasts, busy, audioBlob, sent, turnOf, lastExit,
                           presenceHeld, playFailed, waited, dropSeen, rejected,
                           loopVars>>
    /\ UNCHANGED <<boot, camera, useWebSocketStream, pureVars, streamVars, presenceVars, captureVars,
                   onendedSet, safetyTimers, turns>>

\* The emotions a body is exercised with.
ResultEmotions == {"none", "sad"}

FetchDone(c, outcome) == \E e \in ResultEmotions : FetchResult(c, outcome, e)

----------------------------------------------------------------------------
(* Playback *)

\* A safety timeout of twice the time.
SafetyTimerLate(turn) == [turn |-> turn, rem |-> 2 * SafetyTimeoutMs]

\* The safety timeout set beside the onended handler.
SafetyTimer(turn) == [turn |-> turn, rem |-> SafetyTimeoutMs]

\* audioEl.play() settles; a rejection is logged and shown as a notice.  Then
\* the wait for the end begins: onended is installed and the safety timeout
\* is set.
PlayDone(c, ok) ==
    /\ pc[c] = "play"
    /\ IF ok
       THEN /\ audioPlaying' = TRUE
            /\ UNCHANGED <<toasts, playFailed>>
       ELSE /\ toasts < MaxToasts
            /\ toasts' = toasts + 1
            /\ playFailed' = TRUE
            /\ UNCHANGED audioPlaying
    /\ onendedSet' = TRUE
    /\ safetyTimers' = safetyTimers \cup {SafetyTimer(turnOf[c])}
    /\ waited' = 0
    /\ pc' = [pc EXCEPT ![c] = "waitEnded"]
    /\ UNCHANGED <<boot, camera, useWebSocketStream, pureVars, streamVars, presenceVars,
                   loopVars, captureVars, isPlayingAudio, busy, currentPhase,
                   audioBlob, sent, turnOf, turns, lastExit, phaseLog,
                   presenceHeld, dropSeen, rejected>>

\* The invocations whose wait a settled promise of the given turns ends.
Waiters(ts) == { c \in Callers : pc[c] = "waitEnded" /\ turnOf[c] \in ts }

\* The body shared by the onended handler and the safety timeout: the flags
\* are reset and the promise is resolved; the invocation that waits on it (if
\* it still does) runs to its end through finally.
EndOfPlayback(ws, exit) ==
    /\ isPlayingAudio' = FALSE
    /\ IF ws = {}
       THEN /\ currentPhase' = "idle"
            /\ phaseLog' = Log(phaseLog, "idle")
            /\ UNCHANGED <<busy, pc, audioBlob, sent, turnOf, lastExit,
                           presenceHeld, playFailed, waited, dropSeen, rejected,
                           loopVars>>
       ELSE LET c == CHOOSE w \in ws : TRUE
            IN /\ Finally(c, exit)
               /\ Resume(c)

\* The reply audio reaches its end: the installed onended handler runs.  The
\* handler belongs to the invocation that installed it last.
Ended ==
    /\ audioPlaying
    /\ onendedSet
    /\ audioPlaying' = FALSE
    /\ EndOfPlayback(Waiters({turns}), "ended")
    /\ UNCHANGED <<boot, camera, useWebSocketStream, pureVars, streamVars, toasts,
                   presenceVars, captureVars, onendedSet, safetyTimers, turns>>

\* A safety timeout fires.
SafetyTimeout(t) ==
    /\ t \in safetyTimers
    /\ t.rem = 0
    /\ safetyTimers' = safetyTimers \ {t}
    /\ EndOfPlayback(Waiters({t.turn}), "timeout")
    /\ UNCHANGED <<boot, camera, useWebSocketStream, pureVars, streamVars, toasts,
                   presenceVars, captureVars, audioPlaying, onendedSet, turns>>

----------------------------------------------------------------------------
(* The streaming session (startWebSocketStreaming after the socket opened) *)

\* Bounds of the streaming session: binary chunks per reply, logged errors,
\* recorder chunks.
MaxChunks == 2
MaxWsErrors == 2
MaxFrames == 3

\* The sample counts of the binary chunks.
ChunkSamples == {160, 320}

\* const RMS_THRESHOLD = 0.02 (thousandths) and const REQUIRED_FRAMES = 3.
RmsThreshold == 20
RequiredFrames == 3

\* The RMS values sampleRms returns for one analyser window (thousandths):
\* below the threshold, on it, above it.
WindowRms == {19, 20, 50}

\* The text messages of the dialogue service: the start of the reply audio,
\* with or without an emotion and a sample rate (0: none given), its end,
\* and the answer, with or without an emotion.
Messages ==
    [type : {"audio_start"}, emotion : {"none", "sad"}, sampleRate : {0, 24000}]
        \cup [type : {"answer"}, emotion : {"none", "sad"}, sampleRate : {0}]
        \cup {[type |-> "audio_end", emotion |-> "none", sampleRate |-> 0]}

\* The last k elements of a sequence (all of it when it is shorter).
LastOf(sq, k) == IF Len(sq) <= k THEN sq ELSE SubSeq(sq, Len(sq) - k + 1, Len(sq))

\* A counter that a quiet window leaves as it is.
CountWindowNoReset(n, rms) == IF rms >= RmsThreshold THEN n + 1 ELSE n

\* check(): a window at or above the threshold adds one to consecutive, any
\* other window sets it to zero.
CountWindow(n, rms) == IF rms >= RmsThreshold THEN n + 1 ELSE 0

\* The page assigns the avatar controller (kiosk.js declares it as null and
\* the avatar initialisation of the page sets it).
AvatarAssigned ==
    /\ avatarController = "null"
    /\ avatarController' = "set"
    /\ UNCHANGED <<boot, camera, useWebSocketStream, pureVars, toasts, presenceVars,
                   loopVars, captureVars, playVars, turnVars, histVars,
                   wsStream, wsOpens, streamMic, consecutive, recent,
                   streamRecorder, emotion, audioOpen, sinceClose,
                   downVars, upVars>>

\* getUserMedia for the streaming microphone settles.  A rejection leaves
\* startWebSocketStreaming through mainLoop's catch, which runs the fallback
\* polling loop; the socket stays as it is.
StreamMicDone(ok) ==
    /\ loopKind = "stream"
    /\ streamMic = "none"
    /\ IF ok
       THEN /\ streamMic' = "live"
            /\ UNCHANGED loopVars
       ELSE /\ streamMic' = "refused"
            /\ loopKind' = "fallback"
            /\ pollTimer' = FallbackPollMs
            /\ UNCHANGED <<greetedRecently, greetTimer, loopGreeting, sinceGreet>>
    /\ UNCHANGED <<boot, camera, useWebSocketStream, pureVars, toasts, presenceVars,
                   captureVars, playVars, turnVars, histVars,
                   wsStream, wsOpens, consecutive, recent, streamRecorder,
                   avatarController, emotion, audioOpen, sinceClose,
                   downVars, upVars>>

\* One run of check() on an animation frame.  When consecutive reaches
\* REQUIRED_FRAMES the wait is over: the MediaRecorder is created and started
\* (its chunks go to the socket) and the socket's handlers are installed.
SampleWindow(rms) ==
    /\ loopKind = "stream"
    /\ streamMic = "live"
    /\ streamRecorder = "none"
    /\ consecutive' = CountWindow(consecutive, rms)
    /\ recent' = LastOf(Append(recent, rms), RequiredFrames)
    /\ streamRecorder' = IF consecutive' >= RequiredFrames
                         THEN "recording" ELSE "none"
    /\ UNCHANGED <<boot, camera, useWebSocketStream, pureVars, toasts, presenceVars,
                   loopVars, captureVars, playVars, turnVars, histVars,
                   wsStream, wsOpens, streamMic, avatarController, emotion,
                   audioOpen, sinceClose, downVars, upVars>>

\* wsStream.onmessage for a text message: the avatar is told the emotion of
\* an answer, the emotion of audio_start ('happy' when it names none) and
\* 'neutral' at audio_end, when there is an avatar controller.
WsMessage(m) ==
    /\ wsStream = "open"
    /\ streamRecorder # "none"
    /\ emotion' = IF avatarController # "set" THEN emotion
                  ELSE IF m.type = "answer"
                  THEN (IF m.emotion # "none" THEN m.emotion ELSE emotion)
                  ELSE IF m.type = "audio_start"
                  THEN (IF m.emotion # "none" THEN m.emotion ELSE "happy")
                  ELSE "neutral"
    /\ audioOpen' = IF m.type = "audio_start" THEN TRUE
                    ELSE IF m.type = "audio_end" THEN FALSE
                    ELSE audioOpen
    /\ currentRate' = IF m.type # "audio_start" THEN currentRate
                      ELSE IF m.sampleRate # 0 THEN m.sampleRate
                      ELSE DefaultSampleRate
    /\ pcmIn' = IF m.type = "audio_start" THEN << >> ELSE pcmIn
    /\ pcmOut' = IF m.type = "audio_start" THEN << >> ELSE pcmOut
    /\ afterGarbled' = IF afterGarbled = -1 THEN -1 ELSE 1
    /\ UNCHANGED <<boot, camera, useWebSocketStream, pureVars, toasts, presenceVars,
                   loopVars, captureVars, playVars, turnVars, histVars,
                   wsStream, wsOpens, streamMic, consecutive, recent,
                   streamRecorder, avatarController, sinceClose,
                   wsErrors, upVars>>

\* Whether the data of a binary message has an arrayBuffer() method: a Blob
\* has one, an ArrayBuffer has none.
HasArrayBufferMethod(kind) == kind = "blob"

\* A socket that delivers binary messages as Blobs.
BinaryTypeBlob == "blob"

\* wsStream.binaryType = 'arraybuffer': binary messages arrive as ArrayBuffers.
BinaryType == "arraybuffer"

\* wsStream.onmessage for a binary message of n samples: the handler awaits
\* evt.data.arrayBuffer() and hands the result to playPcmChunk with the
\* current rate.  When evt.data has no such method the call throws; the
\* handler's catch logs the error and the chunk is not played.
WsBinary(n) ==
    /\ wsStream = "open"
    /\ streamRecorder # "none"
    /\ Len(pcmIn) < MaxChunks
    /\ pcmIn' = Append(pcmIn, n)
    /\ IF HasArrayBufferMethod(BinaryType)
       THEN /\ pcmOut' = Append(pcmOut, [samples |-> n, rate |-> currentRate])
            /\ UNCHANGED wsErrors
       ELSE /\ wsErrors < MaxWsErrors
            /\ wsErrors' = wsErrors + 1
            /\ UNCHANGED pcmOut
    /\ UNCHANGED <<boot, camera, useWebSocketStream, pureVars, toasts, presenceVars,
                   loopVars, captureVars, playVars, turnVars, histVars,
                   wsStream, wsOpens, streamMic, consecutive, recent,
                   streamRecorder, avatarController, emotion, audioOpen,
                   sinceClose, currentRate, afterGarbled, upVars>>

\* A handler without its try/catch: the error closes the session.
GarbledRaises ==
    /\ wsErrors' = wsErrors + 1
    /\ wsStream' = "null"
    /\ streamRecorder' = "inactive"
    /\ streamMic' = "stopped"

\* JSON.parse throws inside the handler's try: the catch logs the error
\* ('ws message parse') and the handler returns.
GarbledCaught ==
    /\ wsErrors' = wsErrors + 1
    /\ UNCHANGED <<wsStream, streamRecorder, streamMic>>

\* wsStream.onmessage for a text message that is not JSON.
WsGarbled ==
    /\ wsStream = "open"
    /\ streamRecorder # "none"
    /\ wsErrors < MaxWsErrors
    /\ GarbledCaught
    /\ afterGarbled' = 0
    /\ UNCHANGED <<boot, camera, useWebSocketStream, pureVars, toasts, presenceVars,
                   loopVars, captureVars, playVars, turnVars, histVars,
                   wsOpens, consecutive, recent, avatarController, emotion,
                   audioOpen, sinceClose, currentRate, pcmIn, pcmOut, upVars>>

\* recorder.ondataavailable, every 120 ms: the chunk is read with
\* arrayBuffer() when the socket is open, and dropped otherwise.
StreamData ==
    /\ streamRecorder = "recording"
    /\ frameSeq < MaxFrames
    /\ frameSeq' = frameSeq + 1
    /\ encoding' = IF wsStream = "open" THEN encoding \cup {frameSeq + 1}
                   ELSE encoding
    /\ UNCHANGED <<boot, camera, useWebSocketStream, pureVars, toasts, presenceVars,
                   loopVars, captureVars, playVars, turnVars, histVars,
                   wsStream, wsOpens, streamMic, consecutive, recent,
                   streamRecorder, avatarController, emotion, audioOpen,
                   sinceClose, downVars, wire>>

\* The arrayBuffer() promise of chunk k resolves: .then sends the buffer.
\* (After the socket has gone wsStream.send throws and the chunk is lost.)
EncodeDone(k) ==
    /\ k \in encoding
    /\ encoding' = encoding \ {k}
    /\ wire' = IF wsStream = "open" THEN Append(wire, k) ELSE wire
    /\ UNCHANGED <<boot, camera, useWebSocketStream, pureVars, toasts, presenceVars,
                   loopVars, captureVars, playVars, turnVars, histVars,
                   wsStream, wsOpens, streamMic, consecutive, recent,
                   streamRecorder, avatarController, emotion, audioOpen,
                   sinceClose, downVars, frameSeq>>

\* The socket closes.  With the handlers installed wsStream.onclose runs: the
\* recorder and the microphone tracks are stopped, wsStream is null and the
\* status line shows the idle text.  Before that no handler listens and
\* wsStream keeps the closed socket.
WsClose ==
    /\ wsStream = "open"
    /\ IF streamRecorder # "none"
       THEN /\ streamRecorder' = "inactive"
            /\ streamMic' = "stopped"
            /\ wsStream' = "null"
            /\ sinceClose' = 0
       ELSE /\ wsStream' = "closed"
            /\ UNCHANGED <<streamRecorder, streamMic, sinceClose>>
    /\ UNCHANGED <<boot, camera, useWebSocketStream, pureVars, toasts, presenceVars,
                   loopVars, captureVars, playVars, turnVars, histVars,
                   wsOpens, consecutive, recent, avatarController, emotion,
                   audioOpen, downVars, upVars>>

----------------------------------------------------------------------------
(* Specifications *)

Next ==
    \/ \E cfg \in LoopCfgs : DOMContentLoaded(cfg)
    \/ \E granted \in BOOLEAN : StartPresenceDetection(granted, FALSE)
    \/ \E f \in KeyFrames : OnResults(f)
    \/ PresenceTimeout
    \/ Tick
    \/ MainLoopPoll
    \/ FallbackPoll
    \/ GreetTimeout
    \/ RetryClick
    \/ ToastExpire
    \/ \E c \in Callers, ok \in BOOLEAN : GetUserMediaDone(c, ok)
    \/ RecordTimeout
    \/ \E c \in Callers, data \in Recordings : DataAvailable(c, data)
    \/ \E c \in Callers : OnStop(c)
    \/ \E c \in Callers : CheckDone(c)
    \/ \E c \in Callers, outcome \in Outcomes : FetchDone(c, outcome)
    \/ \E c \in Callers, ok \in BOOLEAN : PlayDone(c, ok)
    \/ Ended
    \/ \E t \in safetyTimers : SafetyTimeout(t)

Spec == Init /\ [][Next]_vars

\* The presence detector alone: start-up, frames, the hold timeout and time.
PresenceNext ==
    \/ \E cfg \in PresenceCfgs : DOMContentLoaded(cfg)
    \/ \E granted, connected \in BOOLEAN : StartPresenceDetection(granted, connected)
    \/ \E f \in Frames : OnResults(f)
    \/ SendFails
    \/ PresenceTimeout
    \/ \E d \in TimeSteps : FrameGap(d)

PresenceSpec == Init /\ [][PresenceNext]_vars

\* A session built with USE_WEBSOCKET_STREAM: start-up, the presence
\* detector, and the streaming session once the socket has opened.
StreamNext ==
    \/ \E cfg \in LoopCfgs : DOMContentLoaded(cfg)
    \/ \E granted, connected \in BOOLEAN : StartPresenceDetection(granted, connected)
    \/ \E f \in KeyFrames : OnResults(f)
    \/ PresenceTimeout
    \/ Tick
    \/ AvatarAssigned
    \/ \E ok \in BOOLEAN : StreamMicDone(ok)
    \/ \E rms \in WindowRms : SampleWindow(rms)
    \/ \E m \in Messages : WsMessage(m)
    \/ \E n \in ChunkSamples : WsBinary(n)
    \/ WsGarbled
    \/ WsClose

\* The build flag is set.
StreamInit == Init /\ useWebSocketStream = TRUE

StreamSpec == StreamInit /\ [][StreamNext]_vars

\* The way up of a streaming session: the recorder's chunks on their way
\* to the socket.
UplinkNext ==
    \/ \E cfg \in LoopCfgs : DOMContentLoaded(cfg)
    \/ \E granted, connected \in BOOLEAN : StartPresenceDetection(granted, connected)
    \/ \E ok \in BOOLEAN : StreamMicDone(ok)
    \/ \E rms \in WindowRms : SampleWindow(rms)
    \/ StreamData
    \/ \E k \in 1..MaxFrames : EncodeDone(k)
    \/ WsClose

UplinkSpec == StreamInit /\ [][UplinkNext]_vars

\* The buffered capture with recordChunk also called from outside loopOnce:
\* start-up, presence, the triggers, the turns up to the amplitude check,
\* a second call of recordChunk at any moment of a capture, and a recorder
\* that cannot be created or started.
CaptureNext ==
    \/ \E cfg \in LoopCfgs : DOMContentLoaded(cfg)
    \/ \E granted \in BOOLEAN : StartPresenceDetection(granted, FALSE)
    \/ \E f \in KeyFrames : OnResults(f)
    \/ PresenceTimeout
    \/ Tick
    \/ MainLoopPoll
    \/ FallbackPoll
    \/ GreetTimeout
    \/ RetryClick
    \/ ToastExpire
    \/ \E c \in Callers, ok \in BOOLEAN : GetUserMediaDone(c, ok)
    \/ RecordTimeout
    \/ \E c \in Callers, data \in Recordings : DataAvailable(c, data)
    \/ \E c \in Callers : OnStop(c)
    \/ \E c \in Callers : CheckDone(c)
    \/ RecordChunkCall
    \/ \E c \in Callers : RecorderThrows(c)

CaptureSpec == Init /\ [][CaptureNext]_vars

\* The dialogue loop with a dialogue service that is silent: the steps of
\* Spec except the settling of the request.  Timers fire and handlers run
\* whenever they can; nothing is assumed about the service.
SilentNext ==
    \/ \E cfg \in LoopCfgs : DOMContentLoaded(cfg)
    \/ \E granted \in BOOLEAN : StartPresenceDetection(granted, FALSE)
    \/ \E f \in KeyFrames : OnResults(f)
    \/ PresenceTimeout
    \/ Tick
    \/ MainLoopPoll
    \/ FallbackPoll
    \/ GreetTimeout
    \/ RetryClick
    \/ ToastExpire
    \/ \E c \in Callers, ok \in BOOLEAN : GetUserMediaDone(c, ok)
    \/ RecordTimeout
    \/ \E c \in Callers, data \in Recordings : DataAvailable(c, data)
    \/ \E c \in Callers : OnStop(c)
    \/ \E c \in Callers : CheckDone(c)

SilentSpec == Init /\ [][SilentNext]_vars /\ WF_vars(SilentNext)

\* The tier classification on its own: the distance and the configuration
\* are drawn at the start, one step classifies.
MaxDistance == 14

TierCfgs ==
    {[CustomCfg EXCEPT !.has = h, !.nearThreshold = n, !.mediumThreshold = m] :
        h \in SUBSET {"nearThreshold", "mediumThreshold"},
        n \in {0, 9, 12}, m \in {0, 8, 13}}

TierArgs == [fn : {"tier"}, d : 0..MaxDistance, pcfg : TierCfgs]

ClassifyTier ==
    /\ arg \in TierArgs
    /\ res = NoRes
    /\ res' = [fn |-> "tier", tier |-> DistanceTier(arg.d, arg.pcfg)]
    /\ UNCHANGED <<boot, camera, useWebSocketStream, arg, streamVars, toasts,
                   presenceVars, loopVars, captureVars, playVars, turnVars,
                   histVars>>

TierInit == PageLoad /\ arg \in TierArgs /\ res = NoRes

TierNext == ClassifyTier

TierSpec == TierInit /\ [][TierNext]_vars

\* The route panel on its own.  A text is a list of words separated by single
\* spaces; field values are lists of words too (the empty list is '').  The
\* words, written in Latin letters here: "otdel" (department), "Kadry" (a
\* name), "kabinet" (room), "vtoroy" (second) and "kontakt" are Cyrillic
\* words of the answers, "101" is a number.
RouteWords == {"otdel", "Kadry", "kabinet", "101", "vtoroy", "kontakt"}

\* Words of Cyrillic letters, matched by [а-яa-zA-Z\-\s] and not by \w.
LetterWords == {"otdel", "Kadry", "kabinet", "vtoroy", "kontakt"}

\* Words matched by \d{1,4} and by [\w\s@.+-]{3,}.
NumberWords == {"101"}

\* Words matched by (первый|второй|третий|четвертый|пятый).
FloorWords == {"vtoroy"}

MaxWords == 3

Texts == UNION {[1..n -> RouteWords] : n \in 0..MaxWords}

\* The longest run of words of S that starts at position i of text.
RECURSIVE Run(_, _, _)
Run(text, i, S) ==
    IF i > Len(text) \/ text[i] \notin S THEN << >>
    ELSE <<text[i]>> \o Run(text, i + 1, S)

\* The leftmost place where word w is followed by a word of S.
Matches(text, w, S) ==
    {i \in 1..(Len(text) - 1) : text[i] = w /\ text[i + 1] \in S}

\* A routing object; present is false for null and undefined.
Routing(dep, room, floor, contact) ==
    [present |-> TRUE, department |-> dep, room |-> room, floor |-> floor,
     contact |-> contact]

NullRouting == [Routing(<< >>, << >>, << >>, << >>) EXCEPT !.present = FALSE]

\* parseRouting(text): the four regular expressions, each taking its leftmost
\* match, and null when none of them finds anything.
parseRouting(text) ==
    LET deptMatch == Matches(text, "otdel", LetterWords)
        roomMatch == Matches(text, "kabinet", NumberWords)
        floorMatch == {i \in 1..Len(text) : text[i] \in FloorWords}
        contactMatch == Matches(text, "kontakt", NumberWords)
        department == IF deptMatch = {} THEN << >>
                      ELSE Run(text, Least(deptMatch) + 1, LetterWords)
        room == IF roomMatch = {} THEN << >>
                ELSE <<text[Least(roomMatch) + 1]>>
        floor == IF floorMatch = {} THEN << >> ELSE <<text[Least(floorMatch)]>>
        contact == IF contactMatch = {} THEN << >>
                   ELSE Run(text, Least(contactMatch) + 1, NumberWords)
    IN IF text = << >> THEN NullRouting
       ELSE IF department # << >> \/ room # << >> \/ floor # << >> \/ contact # << >>
       THEN Routing(department, room, floor, contact)
       ELSE NullRouting

\* What the route panel displays for a routing: the four fields and the
\* panel made visible, or the panel hidden.
PanelOf(routing) ==
    IF routing.present
    THEN [display |-> "block", department |-> routing.department,
          room |-> routing.room, floor |-> routing.floor,
          contact |-> routing.contact]
    ELSE [display |-> "none", department |-> << >>, room |-> << >>,
          floor |-> << >>, contact |-> << >>]

\* loopOnce, the route panel of a response: the routing is parsed from the
\* answer text.  (data.routing is read once, into a constant of the audio
\* branch that nothing uses.)
RoutePanel(data) == PanelOf(parseRouting(data.answer_text))

\* The routing objects a response is exercised with: none, one with empty
\* fields, and two with a field set.
RoutingObjects ==
    {NullRouting,
     Routing(<< >>, << >>, << >>, << >>),
     Routing(<< >>, <<"205">>, << >>, << >>),
     Routing(<<"IT">>, << >>, <<"3">>, << >>)}

RouteArgs == [fn : {"route"}, answer_text : Texts, routing : RoutingObjects]

ShowRoute ==
    /\ arg \in RouteArgs
    /\ res = NoRes
    /\ res' = [fn |-> "route", panel |-> RoutePanel(arg)]
    /\ UNCHANGED <<boot, camera, useWebSocketStream, arg, streamVars, toasts,
                   presenceVars, loopVars, captureVars, playVars, turnVars,
                   histVars>>

RouteInit == PageLoad /\ arg \in RouteArgs /\ res = NoRes

RouteNext == ShowRoute

RouteSpec == RouteInit /\ [][RouteNext]_vars

\* formatSubtitle on its own.  A text is a list of characters, letters and
\* spaces; a word and a line are lists of characters too.
SubtitleLetters == {"a", "b"}

MaxTextLen == 7

SubtitleTexts == UNION {[1..n -> SubtitleLetters \cup {" "}] : n \in 0..MaxTextLen}

\* maxCharsPerLine = 44 when the argument is not given.
DefaultMaxChars == 44
NoWidth == -1

MaxWidth == 4

Widths == {NoWidth} \cup 0..MaxWidth

\* cap to 3 lines
MaxLines == 3

\* text.trim()
RECURSIVE Trim(_)
Trim(t) ==
    IF t = << >> THEN t
    ELSE IF t[1] = " " THEN Trim(Tail(t))
    ELSE IF t[Len(t)] = " " THEN Trim(SubSeq(t, 1, Len(t) - 1))
    ELSE t

\* t.split(/\s+/) of a trimmed text: the pieces between the runs of spaces;
\* the empty text gives one empty piece.
RECURSIVE SplitFrom(_, _, _, _)
SplitFrom(t, i, cur, acc) ==
    IF i > Len(t) THEN Append(acc, cur)
    ELSE IF t[i] # " " THEN SplitFrom(t, i + 1, Append(cur, t[i]), acc)
    ELSE IF t[i - 1] = " " THEN SplitFrom(t, i + 1, cur, acc)
    ELSE SplitFrom(t, i + 1, << >>, Append(acc, cur))

Split(t) == IF t = << >> THEN << << >> >> ELSE SplitFrom(t, 1, << >>, << >>)

\* A test of the fit that forgets the space between the line and the word.
FitsNoSpace(current, w, maxChars) == Len(current) + Len(w) <= maxChars

\* (current + ' ' + w).length <= maxCharsPerLine
Fits(current, w, maxChars) == Len(current) + 1 + Len(w) <= maxChars

\* The for loop of formatSubtitle from word k on, and the push after it.
RECURSIVE WrapLoop(_, _, _, _, _)
WrapLoop(words, k, current, lines, maxChars) ==
    IF k > Len(words)
    THEN IF Len(current) > 0 THEN Append(lines, current) ELSE lines
    ELSE LET w == words[k]
         IN IF Len(current) = 0
            THEN WrapLoop(words, k + 1, w, lines, maxChars)
            ELSE IF Fits(current, w, maxChars)
            THEN WrapLoop(words, k + 1, current \o <<" ">> \o w, lines, maxChars)
            ELSE WrapLoop(words, k + 1, w, Append(lines, current), maxChars)

\* lines.slice(0, n)
Slice(lines, n) == SubSeq(lines, 1, IF Len(lines) < n THEN Len(lines) ELSE n)

formatSubtitle(text, width) ==
    LET maxCharsPerLine == IF width = NoWidth THEN DefaultMaxChars ELSE width
    IN Slice(WrapLoop(Split(Trim(text)), 1, << >>, << >>, maxCharsPerLine),
             MaxLines)

SubtitleArgs == [fn : {"subtitle"}, text : SubtitleTexts, width : Widths]

FormatSubtitle ==
    /\ arg \in SubtitleArgs
    /\ res = NoRes
    /\ res' = [fn |-> "subtitle", lines |-> formatSubtitle(arg.text, arg.width)]
    /\ UNCHANGED <<boot, camera, useWebSocketStream, arg, streamVars, toasts,
                   presenceVars, loopVars, captureVars, playVars, turnVars,
                   histVars>>

SubtitleInit ==
    /\ PageLoad /\ arg \in SubtitleArgs /\ res = NoRes

SubtitleSpec == SubtitleInit /\ [][FormatSubtitle]_vars

\* The blink of the photo avatar (SimpleAvatarAnimator).  arg holds
\* this.blink with its times taken relative to the call: sinceStage is
\* elapsed - stageStart and untilNext is nextAt - elapsed, in ms.  res holds
\* the amount returned last (hundredths), the stages whose amount has been
\* returned during the latest blink, and whether that blink has ended.
BlinkDurationsMs == <<120, 110, 120, 80>>

\* 3 + Math.random() * 5 seconds
BlinkDelays == {3000, 5500, 8000}

\* The times between two frames of animate().
FrameGaps == {20, 60, 130}

MaxBlinks == 2

\* Map stage to blinkAmount
BlinkAmount(stage) ==
    CASE stage = 0 -> 50
      [] stage = 1 -> 100
      [] stage = 2 -> 50
      [] OTHER -> 0

\* A list with x added unless x is its last element.
Noted(l, x) == IF l # << >> /\ l[Len(l)] = x THEN l ELSE Append(l, x)

BlinkStart ==
    {[fn |-> "blink", active |-> FALSE, stage |-> 0, sinceStage |-> 0,
      untilNext |-> d, blinks |-> 0] : d \in BlinkDelays}

\* updateBlink(elapsed), called dt ms after the call before it.
updateBlink(dt) ==
    /\ arg.fn = "blink"
    /\ arg.blinks < MaxBlinks
    /\ IF ~arg.active
       THEN IF arg.untilNext - dt <= 0
            THEN /\ arg' = [arg EXCEPT !.active = TRUE, !.stage = 0,
                                       !.sinceStage = 0, !.untilNext = 0]
                 /\ res' = [fn |-> "blink", amount |-> 0, stages |-> << >>,
                            ended |-> FALSE]
            ELSE /\ arg' = [arg EXCEPT !.untilNext = @ - dt]
                 /\ res' = [res EXCEPT !.amount = 0]
       ELSE LET since == arg.sinceStage + dt
                advance == since >= BlinkDurationsMs[arg.stage + 1]
                stage == IF advance THEN arg.stage + 1 ELSE arg.stage
            IN IF stage >= 4
               THEN \E d \in BlinkDelays :
                       /\ arg' = [arg EXCEPT !.active = FALSE, !.stage = stage,
                                             !.sinceStage = 0, !.untilNext = d,
                                             !.blinks = @ + 1]
                       /\ res' = [res EXCEPT !.amount = 0, !.ended = TRUE]
               ELSE /\ arg' = [arg EXCEPT !.stage = stage,
                                          !.sinceStage = IF advance THEN 0 ELSE since]
                    /\ res' = [res EXCEPT !.amount = BlinkAmount(stage),
                                          !.stages = Noted(@, stage)]
    /\ UNCHANGED <<boot, camera, useWebSocketStream, streamVars, toasts,
                   presenceVars, loopVars, captureVars, playVars, turnVars,
                   histVars>>

BlinkInit ==
    /\ PageLoad /\ arg \in BlinkStart
    /\ res = [fn |-> "blink", amount |-> 0, stages |-> << >>, ended |-> FALSE]

BlinkSpec == BlinkInit /\ [][\E dt \in FrameGaps : updateBlink(dt)]_vars

\* AvatarController.loadAvatar(url).  arg holds the call: whether a url is
\* given and what the load of each candidate comes to ("vrm": a VRM model,
\* "glb": another glTF model, "error": loadAsync rejects, "timeout": the
\* 15 s timer of the race rejects first).  res holds the candidates tried so
\* far, the representations the call has added to the scene, and whether the
\* call has returned.
DefaultModels == <<"avatar.glb", "avatar.vrm", "readyplayer.glb", "sample.vrm">>

LoadOutcomes == {"vrm", "glb", "error", "timeout"}

LoadArgs ==
    [fn : {"load"}, url : {"null", "custom"},
     outcome : [{"custom", "avatar.glb", "avatar.vrm", "readyplayer.glb",
                 "sample.vrm"} -> LoadOutcomes]]

\* const urlsToTry = url ? [url, ...defaultModels] : defaultModels
UrlsToTry(url) == IF url # "null" THEN <<url>> \o DefaultModels ELSE DefaultModels

\* A loop that returns after a VRM model only.
ReturnsOnVrmOnly(o) == o = "vrm"

\* The outcomes after which the loop body returns.
Returns(o) == o \in {"vrm", "glb"}

\* The attempt on the next candidate settles: a model that loaded is added to
\* the scene and the call returns; after a failure the loop goes on, and
\* after the last candidate the placeholder is created and the call returns.
LoadAttempt ==
    /\ arg \in LoadArgs
    /\ ~res.returned
    /\ LET urls == UrlsToTry(arg.url)
           modelUrl == urls[Len(res.tried) + 1]
           o == arg.outcome[modelUrl]
           loaded == IF o \in {"vrm", "glb"} THEN <<modelUrl>> ELSE << >>
           last == Len(res.tried) + 1 = Len(urls)
       IN res' = [fn |-> "load",
                  tried |-> Append(res.tried, modelUrl),
                  installed |-> res.installed \o loaded \o
                                   (IF ~Returns(o) /\ last
                                    THEN <<"placeholder">> ELSE << >>),
                  returned |-> Returns(o) \/ last]
    /\ UNCHANGED <<boot, camera, useWebSocketStream, arg, streamVars, toasts,
                   presenceVars, loopVars, captureVars, playVars, turnVars,
                   histVars>>

LoadInit ==
    /\ PageLoad /\ arg \in LoadArgs
    /\ res = [fn |-> "load", tried |-> << >>, installed |-> << >>,
              returned |-> FALSE]

LoadSpec == LoadInit /\ [][LoadAttempt]_vars

\* AvatarController.setEmotion.  arg holds the representation the controller
\* has ("vrm", "rpm": a Ready Player Me model with morph targets, or
\* "placeholder"); res holds the face, the emotion set last and the number of
\* calls.  Values are in hundredths; rotations in hundredths of pi.  The
\* right eye receives the same statements as the left and is not kept apart.
Emotions == {"neutral", "happy", "surprised", "sad", "thinking", "unknown"}

AvatarKinds == {"vrm", "rpm", "placeholder"}

MaxCalls == 3

\* this.emotionPresets[emotion] || this.emotionPresets.neutral
EmotionPreset(e) ==
    [k \in {"happy", "angry", "sad", "surprised", "relaxed"} |->
        CASE k = "happy" /\ e = "happy" -> 100
          [] k = "surprised" /\ e = "surprised" -> 100
          [] k = "sad" /\ e = "sad" -> 100
          [] k = "relaxed" /\ e = "thinking" -> 50
          [] OTHER -> 0]

\* The blendshapes setEmotion sets to 0 before it applies an emotion.
EmotionTargets ==
    {"mouthSmile", "mouthFrown", "browInnerUp", "eyeWideLeft", "eyeWideRight"}

\* The avatar as built: every expression and morph target at 0, the
\* placeholder's mouth and pupils as createPlaceholderAvatar leaves them.
NeutralFace ==
    [expr |-> EmotionPreset("neutral"),
     morph |-> [t \in EmotionTargets \cup {"mouthOpen"} |-> 0],
     mouthRot |-> 100, mouthScale |-> <<100, 100, 100>>,
     eyeScale |-> <<100, 100, 100>>, eyeY |-> 153]

\* The morph targets of the model after the reset and the switch.
MorphAfter(morph, e) ==
    [t \in DOMAIN morph |->
        CASE e = "happy" /\ t = "mouthSmile" -> 70
          [] e = "sad" /\ t = "mouthFrown" -> 50
          [] e = "surprised" /\ t \in {"eyeWideLeft", "eyeWideRight"} -> 80
          [] e = "surprised" /\ t = "mouthOpen" -> 60
          [] e = "thinking" /\ t = "browInnerUp" -> 40
          [] t \in EmotionTargets -> 0
          [] OTHER -> morph[t]]

\* The placeholder after the reset of the mouth and the switch.
PlaceholderAfter(face, e) ==
    CASE e = "happy" ->
            [face EXCEPT !.mouthRot = 115, !.mouthScale = <<100, 130, 100>>,
                         !.eyeScale = <<@[1], 70, @[3]>>]
      [] e = "sad" ->
            [face EXCEPT !.mouthRot = 85, !.mouthScale = <<100, 80, 100>>,
                         !.eyeY = 152]
      [] e = "surprised" ->
            [face EXCEPT !.mouthRot = 100, !.mouthScale = <<150, 150, 100>>,
                         !.eyeScale = <<130, 130, 100>>]
      [] e = "thinking" ->
            [face EXCEPT !.mouthRot = 100, !.mouthScale = <<80, 80, 100>>,
                         !.eyeY = 154]
      [] OTHER ->
            [face EXCEPT !.mouthRot = 100, !.mouthScale = <<100, 100, 100>>,
                         !.eyeScale = <<100, 100, 100>>, !.eyeY = 153]

\* The face after setEmotion(e), by the representation.
EmotionOn(face, kind, e) ==
    CASE kind = "vrm" -> [face EXCEPT !.expr = EmotionPreset(e)]
      [] kind = "rpm" -> [face EXCEPT !.morph = MorphAfter(@, e)]
      [] OTHER -> PlaceholderAfter(face, e)

EmotionArgs == [fn : {"emotion"}, kind : AvatarKinds]

setEmotion(e) ==
    /\ arg \in EmotionArgs
    /\ res.calls < MaxCalls
    /\ res' = [fn |-> "emotion", face |-> EmotionOn(res.face, arg.kind, e),
               currentEmotion |-> e, calls |-> res.calls + 1]
    /\ UNCHANGED <<boot, camera, useWebSocketStream, arg, streamVars, toasts,
                   presenceVars, loopVars, captureVars, playVars, turnVars,
                   histVars>>

EmotionInit ==
    /\ PageLoad /\ arg \in EmotionArgs
    /\ res = [fn |-> "emotion", face |-> NeutralFace,
              currentEmotion |-> "neutral", calls |-> 0]

EmotionSpec == EmotionInit /\ [][\E e \in Emotions : setEmotion(e)]_vars

\* The insertion of a text into the page on its own.  A text is a list of
\* characters; the five characters escapeHtml replaces and a letter.
HtmlSpecials == {"&", "<", ">", "\"", "'"}

HtmlChars == HtmlSpecials \cup {"a"}

MaxChars == 2

HtmlTexts == UNION {[1..n -> HtmlChars] : n \in 0..MaxChars}

\* The entity escapeHtml writes for a character.
Entity(ch) ==
    CASE ch = "&" -> "&amp;"
      [] ch = "<" -> "&lt;"
      [] ch = ">" -> "&gt;"
      [] ch = "\"" -> "&quot;"
      [] ch = "'" -> "&#039;"
      [] OTHER -> ch

\* escapeHtml(str): every special character becomes its entity (an entity is
\* one element of the result).
escapeHtml(str) == [i \in 1..Len(str) |-> Entity(str[i])]

\* The places where a text of the dialogue service or of recognised speech
\* is assigned to innerHTML: the subtitles (renderSubtitleLine), a notice
\* (showToast), the dialogue log of the streaming handler and the greeting.
DisplayPaths == {"subtitle", "toast", "streamLog", "greeting"}

\* The part of the markup that comes from the text, on each path.
Markup(path, text) ==
    IF path \in {"subtitle", "toast"} THEN escapeHtml(text) ELSE text

DisplayArgs == [fn : {"display"}, path : DisplayPaths, text : HtmlTexts]

InsertText ==
    /\ arg \in DisplayArgs
    /\ res = NoRes
    /\ res' = [fn |-> "display", markup |-> Markup(arg.path, arg.text)]
    /\ UNCHANGED <<boot, camera, useWebSocketStream, arg, streamVars, toasts,
                   presenceVars, loopVars, captureVars, playVars, turnVars,
                   histVars>>

DisplayInit ==
    /\ PageLoad /\ arg \in DisplayArgs /\ res = NoRes

DisplaySpec == DisplayInit /\ [][InsertText]_vars

----------------------------------------------------------------------------
(* Properties of the dialogue loop (checked under Spec) *)

\* The callers whose loopOnce invocation is past its first line and not finished.
Running == {c \in Callers : pc[c] # "none"}

\* C1: at most one dialogue turn is in progress at any instant: whatever the
\* order of main-loop polls, fallback polls and retry clicks, no second
\* loopOnce body runs while an earlier one has not finished; a body that runs
\* holds busy, and only one capture is under way.
OneTurnAtATime ==
    /\ Cardinality(Running) <= 1
    /\ Running # {} => busy
    /\ \A c, d \in Callers :
          (pc[c] \in {"recording", "stopping", "stopped"} /\ pc[d] # "none") => c = d

\* C1 witness: a turn started by a retry click is in progress and the fallback
\* loop has called loopOnce during it.
OneTurnAtATimeSeen ==
    /\ pc["retry"] # "none"
    /\ loopKind = "fallback"
    /\ dropSeen

\* A step in which a polling loop calls loopOnce while busy is true.
CallWhileBusy ==
    /\ busy
    /\ pollTimer = 0
    /\ pollTimer' # 0
    /\ presenceDetected
    /\ loopKind = "fallback" \/ currentPhase = "idle"

\* A step in which the body of caller c begins.
Begins(c) == pc[c] = "none" /\ pc'[c] # "none"

\* A step in which the body of caller c finishes.
Finishes(c) == pc[c] # "none" /\ pc'[c] = "none"

\* C2: a call of loopOnce made while busy is true returns at once and changes
\* nothing (busy, currentPhase, isRecording, the chunks, the notices, the
\* recorder, the running invocation), and it is not remembered: the step in
\* which a turn finishes starts no turn, and a turn only ever begins in the
\* step of a trigger of its own (a poll that is due, a click on a notice)
\* taken while busy is false.
DroppedCallInert ==
    [][/\ CallWhileBusy =>
            UNCHANGED <<busy, currentPhase, isRecording, chunks, toasts,
                        recorderState, micStream, recTimer, pc, audioBlob, sent,
                        turnOf, turns, playVars>>
       /\ \A c, d \in Callers : Finishes(c) => ~Begins(d)
       /\ Begins("loop") => ~busy /\ pollTimer = 0 /\ presenceDetected
       /\ Begins("retry") => ~busy /\ toasts > 0 /\ toasts' = toasts - 1]_vars

\* C2 witness: a call was dropped during the turn in progress and the fallback
\* loop went back to its sleep.
DroppedCallSeen ==
    /\ dropSeen
    /\ busy
    /\ pc["loop"] = "none"
    /\ pollTimer = FallbackPollMs

\* C3: whenever a loopOnce body finishes, on whichever path, busy is false
\* and currentPhase is 'idle' (the call that returns at its first line
\* because busy is true has no body).
ReleasedOnExit ==
    [][\A c \in Callers : Finishes(c) => ~busy' /\ currentPhase' = "idle"]_vars

\* C3 witness: a turn left through the catch block after a failed request.
ReleasedOnExitSeen ==
    /\ lastExit = "requestFailed"
    /\ toasts = 1
    /\ ~busy
    /\ currentPhase = "idle"
    /\ Running = {}

\* C4: a turn that waits for the end of the playback has waited at most 30 s,
\* and its own safety timeout is pending and due exactly 30 s after the wait
\* began; so the wait ends, and the turn returns to idle, no later than that,
\* whether or not the element signals 'ended' and whether or not play() failed.
PlaybackWaitBounded ==
    \A c \in Callers :
        pc[c] = "waitEnded" =>
            /\ waited <= SafetyTimeoutMs
            /\ \E t \in safetyTimers :
                  t.turn = turnOf[c] /\ t.rem + waited = SafetyTimeoutMs

\* C4 witness: play() failed, 'ended' never came, and the turn left through
\* the safety timeout and is idle.
PlaybackWaitBoundedSeen ==
    /\ lastExit = "timeout"
    /\ playFailed
    /\ Running = {}
    /\ ~busy
    /\ currentPhase = "idle"

\* The phases of one full turn.
FullCycle == <<"idle", "listening", "processing", "answering", "idle">>

\* C5: when presence stays true through one full turn (one that ends with the
\* end of the playback), the values taken by currentPhase are exactly idle,
\* listening, processing, answering, idle.
ExactPhaseCycle ==
    [][\A c \in Callers :
          (pc[c] = "waitEnded" /\ Finishes(c) /\ presenceHeld)
              => phaseLog' = FullCycle]_vars

----------------------------------------------------------------------------
(* Properties of the presence detector (checked under PresenceSpec) *)

\* C6: presenceDetected changes from true to false only when at least holdMs
\* (20000 ms unless configured) has passed since the most recent qualifying
\* frame; a qualifying frame inside the hold window cancels the pending
\* expiry, so that a pending expiry is always due holdMs after the most
\* recent qualifying frame.
HoldWindow ==
    [][/\ (presenceDetected /\ ~presenceDetected')
              => sinceQual >= HoldMs(presenceCfg)
       /\ presenceTimer' # NoTimer
              => presenceTimer' + sinceQual' = HoldMs(presenceCfg')]_vars

\* C6 witness: under the default configuration presence was set by a
\* qualifying frame and has expired, 20000 ms after that frame.
HoldWindowSeen ==
    /\ presenceCfg = EmptyCfg
    /\ lastFrame = "qualified"
    /\ ~presenceDetected
    /\ presenceTimer = NoTimer
    /\ sinceQual = DefaultHoldMs

\* The qualifying condition as the contract words it, on the landmark
\* coordinates themselves: the eye distance reaches the medium threshold (so
\* the tier is near or medium), both nose offsets are strictly below the
\* tolerance, and the nose lies in the region, bounds included.
Qualifying(f, pcfg) ==
    LET nearTh == IF "nearThreshold" \in pcfg.has THEN pcfg.nearThreshold ELSE 10
        medTh == IF "mediumThreshold" \in pcfg.has THEN pcfg.mediumThreshold ELSE 7
        tolPx == IF "attentionTolerancePx" \in pcfg.has
                 THEN pcfg.attentionTolerancePx ELSE 80
        roi == IF "roi" \in pcfg.has THEN pcfg.roi
               ELSE [top |-> 0, left |-> 0, width |-> 100, height |-> 100]
        ex == (f.rightEye.x - f.leftEye.x) * 320
        ey == (f.rightEye.y - f.leftEye.y) * 240
        reach(th) == ex * ex + ey * ey >= (th * 320) * (th * 320)
        offX == Abs(f.leftEye.x + f.rightEye.x - 2 * f.nose.x) * 320
        offY == Abs(f.leftEye.y + f.rightEye.y - 2 * f.nose.y) * 240
    IN /\ f.kind = "face"
       /\ reach(nearTh) \/ reach(medTh)
       /\ offX < 200 * tolPx
       /\ offY < 200 * tolPx
       /\ roi.left <= f.nose.x /\ f.nose.x <= roi.left + roi.width
       /\ roi.top <= f.nose.y /\ f.nose.y <= roi.top + roi.height

\* C7: a frame sets presenceDetected to true if and only if it has a face
\* whose tier is near or medium, whose attention test passes (both offsets
\* strictly below the tolerance) and whose nose lies in the region of
\* interest (bounds included); any other frame leaves the flag as it was.
PresenceIffQualifying ==
    [][\A f \in Frames :
          OnResults(f) =>
              IF Qualifying(f, presenceCfg)
              THEN presenceDetected' /\ lastFrame' = "qualified"
              ELSE presenceDetected' = presenceDetected
                   /\ lastFrame' # "qualified"]_vars

\* C7 witness: under the configured thresholds, tolerance and region a frame
\* qualified and presence is true.
PresenceIffQualifyingSeen ==
    /\ presenceCfg = CustomCfg
    /\ lastFrame = "qualified"
    /\ presenceDetected
    /\ sinceQual = 0

\* C8: a frame without a face and a frame whose face does not qualify leave
\* presenceDetected and the pending hold timer as they are.
InertFrames ==
    [][\A f \in Frames :
          (OnResults(f) /\ f.kind \in {"noface", "face"}
                        /\ ~Qualifying(f, presenceCfg))
              => UNCHANGED <<presenceDetected, presenceTimer>>]_vars

\* C8 witness: presence is true, its timer has run for part of the hold
\* window, and the latest frame had no face.
InertFramesSeen ==
    /\ lastFrame = "noface"
    /\ presenceDetected
    /\ presenceTimer # NoTimer
    /\ presenceTimer < HoldMs(presenceCfg)

----------------------------------------------------------------------------
(* Properties of the amplitude gate (checked under Spec) *)

\* The blob decodes and the mean of its squared samples is below 0.008 squared.
DecodesQuiet(b) ==
    /\ b.size > 0
    /\ b.decodable
    /\ SumSquares(b.samples) < 8 * 8 * Len(b.samples)

\* The blob decodes and the mean of its squared samples is 0.008 squared or more.
DecodesLoud(b) ==
    /\ b.size > 0
    /\ b.decodable
    /\ SumSquares(b.samples) >= 8 * 8 * Len(b.samples)

\* A step in which the amplitude check of caller c's invocation settles.
Checked(c) == pc[c] = "checking" /\ pc'[c] # "checking"

\* C9: when the captured audio decodes and its RMS is below 0.008, the turn
\* makes no request to the dialogue service, ends idle with busy released,
\* and shows no notice.
QuietSkipped ==
    [][\A c \in Callers :
          (Checked(c) /\ DecodesQuiet(audioBlob[c]))
              => /\ sent[c] = 0 /\ sent'[c] = 0
                 /\ pc'[c] = "none"
                 /\ ~busy'
                 /\ currentPhase' = "idle"
                 /\ toasts' = toasts]_vars

\* C9 witness: a turn was skipped as too quiet; nothing was sent, no notice
\* is shown, and the kiosk is idle.
QuietSkippedSeen ==
    /\ lastExit = "quiet"
    /\ chunks = <<Audio(<<7, 8>>)>>
    /\ sent = [c \in Callers |-> 0]
    /\ toasts = 0
    /\ ~busy
    /\ currentPhase = "idle"

\* C10: a turn whose captured audio has RMS 0.008 or more (0.008 included)
\* makes exactly one request: the request is made when the check settles,
\* and no other step of the turn makes one.
OneRequestWhenLoud ==
    [][\A c \in Callers :
          /\ (Checked(c) /\ DecodesLoud(audioBlob[c]))
                => sent[c] = 0 /\ sent'[c] = 1 /\ pc'[c] = "fetching"
          /\ sent'[c] > sent[c] => Checked(c)
          /\ (pc[c] # "none" /\ ~Checked(c)) => sent'[c] = sent[c]]_vars

\* C10 witness: audio whose RMS is exactly 0.008 was captured and one
\* request is in flight.
OneRequestWhenLoudSeen ==
    \E c \in Callers :
        /\ pc[c] = "fetching"
        /\ chunks = <<Audio(<<8>>)>>
        /\ sent[c] = 1

\* The blob cannot be decoded: decodeAudioData rejects an empty recording and
\* bytes that are not audio.
Undecodable(b) == b.size = 0 \/ (b.size > 0 /\ ~b.decodable)

\* C11: a decode failure in the amplitude gate makes the gate pass: the turn
\* is not ended, it goes on to processing with busy held and the captured
\* audio is sent to the dialogue service, once.
DecodeFailurePasses ==
    [][\A c \in Callers :
          (Checked(c) /\ Undecodable(audioBlob[c]))
              => /\ pc'[c] = "fetching"
                 /\ currentPhase' = "processing"
                 /\ busy /\ busy'
                 /\ sent[c] = 0 /\ sent'[c] = 1
                 /\ toasts' = toasts]_vars

\* C11 witness: the recording was bytes that do not decode, and the turn is
\* waiting for the dialogue service after its one request.
DecodeFailurePassesSeen ==
    /\ \E c \in Callers : pc[c] = "fetching" /\ sent[c] = 1
    /\ chunks = <<Garbage>>
    /\ currentPhase = "processing"
    /\ busy

----------------------------------------------------------------------------
(* Properties of a failed request (checked under Spec) *)

\* The request fails: fetch rejects, or the response body is not JSON.
RequestFailures == {"neterr", "badjson"}

\* C16: when the buffered request fails (network error or unparsable
\* response) only the turn in progress is abandoned: the invocation ends, the
\* phase is idle, busy is released and one notice (with its retry button) is
\* added; the polling loop that awaited the turn sleeps again, and the
\* capture and playback state are as they were.
RequestFailureAbandonsTurn ==
    [][\A c \in Callers, o \in RequestFailures :
          FetchDone(c, o)
              => /\ pc'[c] = "none"
                 /\ currentPhase' = "idle"
                 /\ busy /\ ~busy'
                 /\ toasts' = toasts + 1
                 /\ loopKind' = loopKind
                 /\ c = "loop" => pollTimer' = LoopInterval
                 /\ UNCHANGED <<captureVars, playVars, presenceVars>>]_vars

\* C16 witness: a request has just failed; the kiosk is idle with busy
\* released, no invocation runs and the notice is on screen.
RequestFailureAbandonsTurnSeen ==
    /\ lastExit = "requestFailed"
    /\ \E c \in Callers : sent[c] = 1
    /\ Running = {}
    /\ ~busy
    /\ currentPhase = "idle"
    /\ toasts = 1

----------------------------------------------------------------------------
(* Properties of the triggers (checked under Spec) *)

\* A step in which a polling loop wakes up while the kiosk is free.
PollWhileFree ==
    /\ pollTimer = 0
    /\ pollTimer' # 0
    /\ ~busy
    /\ currentPhase = "idle"

\* With the camera refused no frame is analysed, so presenceDetected keeps
\* its initial value and no invocation of loopOnce is ever made.
DeniedCameraNeverTurns ==
    camera = "denied" => ~presenceDetected /\ turns = 0 /\ toasts = 0

\* C18: when camera access is denied the kiosk runs without the presence
\* gate (always listening): the polling loop runs, and a poll that finds the
\* kiosk free starts a dialogue turn although presenceDetected is false.
DeniedCameraStillListens ==
    [][(camera = "denied" /\ PollWhileFree) => Begins("loop")]_vars

\* C19: a turn starts only when presenceDetected is true and currentPhase is
\* 'idle' at that moment, whichever trigger starts it (main loop, fallback
\* loop, retry button).
StartsOnlyWhenPresentAndIdle ==
    [][\A c \in Callers :
          Begins(c) => presenceDetected /\ currentPhase = "idle"]_vars

\* A step in which mainLoop starts.
LoopStarts == boot = "config" /\ boot' = "running"

\* C14: when the streaming channel opens on no candidate host the session
\* falls back to the buffered polling loop, once: each candidate was tried
\* once, and from then on the loop stays the fallback loop and no step (no
\* poll, no turn) opens a socket again.
FallbackKept ==
    [][/\ (LoopStarts /\ useWebSocketStream /\ wsStream' = "null")
            => /\ loopKind' = "fallback"
               /\ wsOpens' = Candidates
               /\ pollTimer' = FallbackPollMs
       /\ loopKind = "fallback"
            => /\ loopKind' = "fallback"
               /\ wsStream = "null" /\ wsStream' = "null"
               /\ wsOpens' = wsOpens]_vars

\* C14 witness: the session fell back, two turns have run to their end in
\* the fallback loop, and the socket was tried on the two candidates only.
FallbackKeptSeen ==
    /\ useWebSocketStream
    /\ loopKind = "fallback"
    /\ Finished = 2
    /\ wsOpens = Candidates
    /\ wsStream = "null"

\* A step in which the main loop takes its greeting branch: it finds
\* __greetedRecently false and sets it.
GreetingStart == ~greetedRecently /\ greetedRecently'

\* C20: an automatic greeting is started only when the re-greet window has
\* elapsed: after one greeting start the main loop starts no further greeting
\* while that greeting turn runs, nor in the 20 s after it has finished.
RegreetWindow ==
    [][GreetingStart => /\ ~loopGreeting
                        /\ greetTimer = NoTimer
                        /\ sinceGreet >= GreetWindowMs]_vars

\* C20 witness: within the 20 s after a greeting turn finished the main loop
\* has started a turn, and that turn is not a greeting.
RegreetWindowSeen ==
    /\ loopKind = "main"
    /\ pc["loop"] # "none"
    /\ ~loopGreeting
    /\ greetedRecently
    /\ sinceGreet < GreetWindowMs
    /\ greetTimer > 0

\* A second greeting turn runs, the window after the first one being over.
SecondGreetingSeen ==
    /\ loopKind = "main"
    /\ loopGreeting
    /\ pc["loop"] # "none"
    /\ turns >= 2
    /\ sinceGreet = GreetWindowMs

----------------------------------------------------------------------------
(* Properties of the streaming session (checked under StreamSpec) *)

\* The number of windows at or above the threshold at the end of a sequence.
RECURSIVE TrailingLoud(_)
TrailingLoud(sq) ==
    IF sq = << >> \/ sq[Len(sq)] < RmsThreshold THEN 0
    ELSE 1 + TrailingLoud(SubSeq(sq, 1, Len(sq) - 1))

\* A step in which the streaming recorder is started: emission begins.
EmissionStarts == streamRecorder = "none" /\ streamRecorder' = "recording"

\* C13: in streaming mode emission starts only after three consecutive
\* analysis windows each with RMS >= 0.02: the counter is the number of
\* windows in a row at or above the threshold, a window below it sets the
\* counter to zero and starts nothing (so one window above followed by one
\* below does not start emission), and the recorder is started only in a
\* step whose latest three windows are all at or above the threshold.
SoundGate ==
    /\ [](consecutive = TrailingLoud(recent))
    /\ [](streamRecorder = "none" => consecutive < RequiredFrames)
    /\ [][/\ EmissionStarts
               => /\ Len(recent') = RequiredFrames
                  /\ \A i \in 1..RequiredFrames : recent'[i] >= RmsThreshold
           /\ \A rms \in WindowRms :
                 (SampleWindow(rms) /\ rms < RmsThreshold)
                     => consecutive' = 0 /\ streamRecorder' = "none"]_vars

\* C13 witness: emission has started, the third window being exactly on the
\* threshold.
SoundGateSeen ==
    /\ streamRecorder = "recording"
    /\ consecutive = RequiredFrames
    /\ recent = <<50, 50, 20>>
    /\ wsStream = "open"

\* A window above the threshold and then one below: nothing has started.
AboveThenBelowSeen ==
    /\ recent = <<50, 19>>
    /\ consecutive = 0
    /\ streamRecorder = "none"

\* A step in which wsStream.onclose runs: the open channel drops.
ChannelDrops == wsStream = "open" /\ wsStream' = "null"

\* The channel dropped between audio_start and audio_end, while the avatar
\* showed the emotion it was given at audio_start.
DroppedWhileSpeaking ==
    /\ wsStream = "null"
    /\ streamRecorder = "inactive"
    /\ audioOpen
    /\ avatarController = "set"
    /\ emotion \in {"happy", "sad"}

\* C15: when the streaming channel closes after audio_start and before
\* audio_end the close is handled as an audio_end: 30 s after the close at
\* the latest the avatar has received setEmotion('neutral') and the phase is
\* idle.
CloseEndsAudio ==
    (DroppedWhileSpeaking /\ sinceClose >= SafetyTimeoutMs)
        => emotion = "neutral" /\ currentPhase = "idle"

\* After the drop the session has nothing left that could start a turn: the
\* microphone is stopped, no polling loop sleeps, no notice is shown and no
\* socket is opened again.
AfterDropInert ==
    (loopKind = "stream" /\ wsStream = "null")
        => /\ streamMic = "stopped"
           /\ streamRecorder = "inactive"
           /\ pollTimer = NoTimer
           /\ toasts = 0
           /\ turns = 0
           /\ wsOpens <= Candidates

\* C17: when the streaming channel drops after it was opened only the
\* current turn is abandoned: the kiosk is idle and the close handler
\* surfaces a notice (with its retry button).
DropSurfacesNotice ==
    [][ChannelDrops => currentPhase' = "idle" /\ toasts' = toasts + 1]_vars

----------------------------------------------------------------------------
(* Properties of recordChunk (checked under CaptureSpec) *)

\* The invocations whose recordChunk has not settled.
Capturing ==
    {c \in Callers : pc[c] \in {"getUserMedia", "recording", "stopping", "stopped"}}

\* A step in which a call of recordChunk is rejected.
CallRejected == ~rejected /\ rejected'

\* C12: at most one buffered capture is active at a time, and recordChunk
\* called while a capture is active fails with 'already recording' and
\* leaves that capture untouched: isRecording stays true, the recorded
\* chunks are not cleared, the recorder, its microphone stream and its stop
\* timeout are the same, and the capturing invocation goes on.
SecondCaptureRejected ==
    /\ [](Cardinality(Capturing) <= 1)
    /\ [](isRecording <=> Capturing # {})
    /\ [][CallRejected
            => /\ isRecording /\ isRecording'
               /\ chunks' = chunks
               /\ recorderState' = recorderState
               /\ micStream' = micStream
               /\ recTimer' = recTimer
               /\ pc' = pc /\ audioBlob' = audioBlob]_vars

\* C12 witness: a second call was rejected during a capture whose recorder
\* has delivered its data and has not yet reported its stop; the chunk is
\* still there and the capture is still the active one.
SecondCaptureRejectedSeen ==
    /\ rejected
    /\ isRecording
    /\ chunks # << >>
    /\ \E c \in Callers : pc[c] = "stopped"

----------------------------------------------------------------------------
(* Presence loss during a turn (checked under Spec) *)

\* A step in which the hold timer expires and presence is lost.
PresenceLost == presenceTimer = 0 /\ presenceDetected /\ ~presenceDetected'

\* C21: presence loss during an active turn does not abort it: the expiry
\* of the hold timer while busy is true changes presenceDetected (and its
\* timer) only; busy, the phase, the capture, the playback, the request
\* count and the position of the running invocation are untouched.
PresenceLossKeepsTurn ==
    [][(PresenceLost /\ busy)
          => /\ busy'
             /\ currentPhase' = currentPhase
             /\ pc' = pc
             /\ sent' = sent
             /\ audioBlob' = audioBlob
             /\ UNCHANGED <<captureVars, playVars, loopVars, toasts>>]_vars

\* C21 witness: the main loop started a turn (under presence), presence was
\* lost while it ran, and the turn has gone on to play its answer.
PresenceLossKeepsTurnSeen ==
    /\ pc["loop"] = "waitEnded"
    /\ currentPhase = "answering"
    /\ busy
    /\ ~presenceDetected
    /\ presenceTimer = NoTimer
    /\ sent["loop"] = 1

----------------------------------------------------------------------------
(* Properties of the streamed reply and of the chunks sent (StreamSpec,
   UplinkSpec) *)

\* C22: after audio_start with sample rate R every binary chunk received
\* before audio_end is handed to the playback sink, once, in full and at
\* rate R: the chunks handed over are the chunks received.
PcmAllPlayed ==
    audioOpen
        => /\ Len(pcmOut) = Len(pcmIn)
           /\ \A i \in 1..Len(pcmIn) :
                 pcmOut[i] = [samples |-> pcmIn[i], rate |-> currentRate]

\* C23: the recorder's chunks reach the socket in the order the recorder
\* delivered them, each at most once, whatever the order in which their
\* arrayBuffer() promises resolve.
FramesInOrder ==
    \A i, j \in 1..Len(wire) : i < j => wire[i] < wire[j]

\* C24: a malformed frame (a text message that is not JSON) is logged and
\* does not raise: the socket stays open, the recorder and the microphone go
\* on, nothing else of the session changes, and the handler stays installed
\* for the frames that follow.
MalformedFrameSkipped ==
    [][WsGarbled
          => /\ wsErrors' = wsErrors + 1
             /\ wsStream' = "open"
             /\ streamRecorder' = streamRecorder /\ streamRecorder' # "none"
             /\ streamMic' = streamMic
             /\ UNCHANGED <<emotion, audioOpen, currentRate, pcmIn, pcmOut,
                            toasts, turnVars, upVars>>]_vars

\* C24 witness: after a frame that was not JSON the next message was handled:
\* audio_start with a rate and an emotion changed the rate and the avatar.
MalformedFrameSkippedSeen ==
    /\ afterGarbled = 1
    /\ wsErrors = 1
    /\ wsStream = "open"
    /\ streamRecorder = "recording"
    /\ audioOpen
    /\ currentRate = 24000
    /\ emotion = "sad"

----------------------------------------------------------------------------
(* Failures of the frame analysis (checked under PresenceSpec) *)

\* C25: a failure while analysing one camera frame is skipped and never
\* escalates: presence and the hold timer are as they were, and the frames
\* that follow are still analysed: while frames are being analysed, no step
\* ends the analysis of frames.
FrameLoopSurvives ==
    [][camera = "granted" => camera' = "granted"]_vars

\* After the rejection no frame is analysed any more: presence can only
\* expire.
StalledNeverDetects ==
    [][camera = "stalled"
          => /\ camera' = "stalled"
             /\ lastFrame' = lastFrame
             /\ ~presenceDetected => ~presenceDetected']_vars

----------------------------------------------------------------------------
(* The distance tiers (checked under TierSpec) *)

\* The threshold a configuration gives for a key: its own value when it has
\* the key, the stated default otherwise.
StatedThreshold(pcfg, key, dflt) == IF key \in pcfg.has THEN pcfg[key] ELSE dflt

\* C26: for every distance d and thresholds nearThreshold and mediumThreshold
\* (0.10 and 0.07 when not configured) the tier is near when
\* d >= nearThreshold, medium when mediumThreshold <= d < nearThreshold, and
\* far otherwise; a distance equal to a threshold belongs to the higher tier.
TierByThresholds ==
    res.fn = "tier" =>
        LET d == arg.d
            nearTh == StatedThreshold(arg.pcfg, "nearThreshold", 10)
            medTh == StatedThreshold(arg.pcfg, "mediumThreshold", 7)
        IN /\ d >= nearTh => res.tier = "near"
           /\ (medTh <= d /\ d < nearTh) => res.tier = "medium"
           /\ (d < nearTh /\ d < medTh) => res.tier = "far"

\* A distance equal to the configured near threshold was classified near.
TierBoundarySeen ==
    /\ res.fn = "tier"
    /\ "nearThreshold" \in arg.pcfg.has
    /\ arg.pcfg.nearThreshold = 12
    /\ arg.d = 12
    /\ res.tier = "near"

\* A distance equal to the default medium threshold was classified medium.
TierDefaultBoundarySeen ==
    /\ res.fn = "tier"
    /\ arg.pcfg.has = {}
    /\ arg.d = 7
    /\ res.tier = "medium"

----------------------------------------------------------------------------
(* The avatar's reactions (checked under Spec) *)

\* C27: for every turn whose result carries an emotion, the avatar's
\* setEmotion is invoked with that value, in buffered mode as in streaming
\* mode: when the body of a buffered turn arrives with the emotion "sad",
\* "sad" is the emotion the avatar received last.
BufferedEmotionReachesAvatar ==
    [][\A c \in Callers, o \in {"noaudio", "audio"} :
          FetchResult(c, o, "sad") => emotion' = "sad"]_vars

----------------------------------------------------------------------------
(* The end of a turn (checked under SilentSpec) *)

\* C28: every turn that starts eventually returns to idle with busy
\* released, also when the dialogue service never answers.
TurnReturnsToIdle == busy ~> (~busy /\ currentPhase = "idle")

\* While the request is pending nothing but the poll and presence timers can
\* be pending: no timeout of the turn itself is set.
SilentWaitHasNoDeadline ==
    \A c \in Callers : pc[c] = "fetching" => recTimer = NoTimer /\ safetyTimers = {}

----------------------------------------------------------------------------
(* The release of the microphone (checked under CaptureSpec) *)

\* C29: whenever the recordChunk of an invocation settles, by resolving or
\* by rejecting, every microphone track it acquired has been stopped and
\* isRecording is false.
SettledCaptureReleased ==
    [][\A c \in Callers :
          (c \in Capturing /\ c \notin Capturing')
              => micStream' # "live" /\ ~isRecording']_vars

----------------------------------------------------------------------------
(* The route panel (checked under RouteSpec) *)

\* The response carries a routing object with at least one non-empty field.
CarriesRouting(r) ==
    /\ r.present
    /\ r.department # << >> \/ r.room # << >> \/ r.floor # << >> \/ r.contact # << >>

\* C30: when the buffered response carries a routing object with at least
\* one non-empty field, the route panel shows that routing; only when it
\* carries none does the panel show the routing parsed from the answer text.
PanelShowsResponseRouting ==
    res.fn = "route" =>
        res.panel = IF CarriesRouting(arg.routing)
                    THEN PanelOf(arg.routing)
                    ELSE PanelOf(parseRouting(arg.answer_text))

----------------------------------------------------------------------------
(* Texts inserted as markup (checked under DisplaySpec) *)

\* C31: every text that comes from the dialogue service or from recognised
\* speech is HTML-escaped before it is inserted into the page as markup, on
\* every display path: no special character of the text is in the markup.
MarkupEscaped ==
    res.fn = "display" =>
        \A i \in 1..Len(res.markup) : res.markup[i] \notin HtmlSpecials

----------------------------------------------------------------------------
(* The wrapping of subtitles (checked under SubtitleSpec) *)

\* The whitespace-separated words of a text, in order.
RECURSIVE WordsFrom(_, _)
WordsFrom(t, i) ==
    IF i > Len(t) THEN << >>
    ELSE IF t[i] = " " THEN WordsFrom(t, i + 1)
    ELSE LET w == Run(t, i, SubtitleLetters)
         IN <<w>> \o WordsFrom(t, i + Len(w))

\* Words i..j written on one line, one space between two words.
RECURSIVE Joined(_, _, _)
Joined(words, i, j) ==
    IF i = j THEN words[i] ELSE words[i] \o <<" ">> \o Joined(words, i + 1, j)

\* The greedy wrap from word i on: a line takes its first word and then as
\* many of the following words as fit.
RECURSIVE GreedyWrap(_, _, _)
GreedyWrap(words, i, maxChars) ==
    IF i > Len(words) THEN << >>
    ELSE LET fit == {j \in i..Len(words) : Len(Joined(words, i, j)) <= maxChars}
             j == CHOOSE m \in fit \cup {i} : \A n \in fit : n <= m
         IN <<Joined(words, i, j)>> \o GreedyWrap(words, j + 1, maxChars)

\* C32: for every text and line width, formatSubtitle returns the first
\* three lines of the greedy word wrap of the text's whitespace-separated
\* words: words are whole and in order, and a word joins the current line
\* exactly when the line, one space and the word fit in the width (44 when
\* no width is given).
SubtitleIsGreedyWrap ==
    res.fn = "subtitle" =>
        LET wrap == GreedyWrap(WordsFrom(arg.text, 1), 1,
                               IF arg.width = NoWidth THEN 44 ELSE arg.width)
        IN /\ Len(res.lines) = IF Len(wrap) < 3 THEN Len(wrap) ELSE 3
           /\ \A i \in 1..Len(res.lines) : res.lines[i] = wrap[i]

\* A text of three words and a trailing space, wrapped at width 3 into a line
\* of two words and a line of one.
SubtitleJoinSeen ==
    /\ res.fn = "subtitle"
    /\ arg.text = <<"a", " ", "b", " ", "a", "b", " ">>
    /\ arg.width = 3
    /\ res.lines = << <<"a", " ", "b">>, <<"a", "b">> >>

\* C32 witness: four words at width 1 wrap into four lines, of which the
\* first three are returned.
SubtitleCutSeen ==
    /\ res.fn = "subtitle"
    /\ arg.text = <<"a", " ", "b", " ", "a", " ", "b">>
    /\ arg.width = 1
    /\ res.lines = << <<"a">>, <<"b">>, <<"a">> >>

----------------------------------------------------------------------------
(* The blink keyframes (checked under BlinkSpec) *)

\* C33: each blink shows its four keyframes in order with none skipped: when
\* a blink has ended, the amounts returned during it were 0.5 (half), then
\* 1.0 (closed), then 0.5 (half), then 0 (open); and while no blink is
\* active updateBlink returns 0.
BlinkShowsFourKeyframes ==
    res.fn = "blink" =>
        /\ res.ended =>
              [i \in 1..Len(res.stages) |-> BlinkAmount(res.stages[i])]
                  = <<50, 100, 50, 0>>
        /\ ~arg.active => res.amount = 0

\* What does hold: the stages whose amount is returned come in order, and
\* only the first can be missing.
BlinkStagesInOrder ==
    (res.fn = "blink" /\ res.ended) => res.stages \in {<<0, 1, 2, 3>>, <<1, 2, 3>>}

----------------------------------------------------------------------------
(* The loading of the avatar (checked under LoadSpec) *)

\* The candidates of a call whose load succeeds, by their place in the order
\* given url, then defaults.
Loadable ==
    {k \in 1..Len(UrlsToTry(arg.url)) :
        arg.outcome[UrlsToTry(arg.url)[k]] \in {"vrm", "glb"}}

\* C34: loadAvatar tries the candidates in order (a given url first, then
\* the defaults), stops at the first one that loads, and installs the
\* placeholder when every candidate fails or times out; it always finishes,
\* with exactly one representation installed by the call.
LoadInstallsExactlyOne ==
    res.fn = "load" =>
        LET urls == UrlsToTry(arg.url)
        IN /\ res.tried = SubSeq(urls, 1, Len(res.tried))
           /\ \A k \in Loadable : Len(res.tried) <= k
           /\ Len(res.installed) <= 1
           /\ res.returned =>
                  res.installed =
                      IF Loadable = {} THEN <<"placeholder">>
                      ELSE <<urls[Least(Loadable)]>>
           /\ ~res.returned => res.installed = << >> /\ ENABLED LoadAttempt

\* C34 witness: the given url timed out, the first default failed, and the
\* second default was installed; the later candidates were not tried.
LoadThirdCandidateSeen ==
    /\ res.fn = "load"
    /\ res.returned
    /\ arg.outcome["custom"] = "timeout"
    /\ res.tried = <<"custom", "avatar.glb", "avatar.vrm">>
    /\ res.installed = <<"avatar.vrm">>

\* Every candidate failed or timed out and the placeholder was installed.
LoadPlaceholderSeen ==
    /\ res.fn = "load"
    /\ res.returned
    /\ Len(res.tried) = 5
    /\ res.installed = <<"placeholder">>

----------------------------------------------------------------------------
(* The expression of the avatar (checked under EmotionSpec) *)

\* C35: the expression the avatar shows after setEmotion(e) depends on e
\* only: after any calls that end with setEmotion(e), the mouth, eye and
\* blendshape values are those of setEmotion(e) applied to the neutral
\* avatar.
EmotionForgetsHistory ==
    (res.fn = "emotion" /\ res.calls > 0)
        => res.face = EmotionOn(NeutralFace, arg.kind, res.currentEmotion)

\* With a VRM model the claim holds: every preset sets all five expressions.
VrmEmotionForgetsHistory ==
    (res.fn = "emotion" /\ res.calls > 0 /\ arg.kind = "vrm")
        => res.face = EmotionOn(NeutralFace, arg.kind, res.currentEmotion)

============================================================================
